---- MODULE Spec2Model ----
(***************************************************************************)
(* A model of the Raph reactive engine (egorkozelskiy/endge-raph).         *)
(*                                                                         *)
(*   DepGraph   src/src/domain/entities/DepGraph.ts                        *)
(*   MinHeap    src/src/domain/entities/MinHeap.js                         *)
(*   RaphRouter src/src/domain/core/RaphRouter.js (+ RaphRouterNode.ts)    *)
(*   DataPath   src/src/domain/entities/DataPath.ts (parse, print, match)  *)
(*   DataAdapter src/src/domain/entities/DataAdapter.ts                    *)
(*   RaphApp    src/src/domain/core/RaphApp.ts                             *)
(*                                                                         *)
(* JavaScript Set and Map objects iterate in insertion order, and the code *)
(* depends on that order, so they are modelled as duplicate-free           *)
(* sequences ("ordered sets").  The call stack of the single JavaScript    *)
(* thread is the variable `stack`: an executor is user code that can call  *)
(* back into the app, and under the sync scheduler run() can be entered    *)
(* again from inside an executor.                                          *)
(***************************************************************************)
EXTENDS Integers, Sequences, FiniteSets, TLC

\* ------------------------------------------------------------------------
\* Bounds of the model
\* ------------------------------------------------------------------------
\* number of calls user code makes (top level and inside executors)
MaxOps == 2
\* number of run() frames that may be on the call stack at the same time
MaxNest == 2

\* ------------------------------------------------------------------------
\* Ordered sets (JS Set / Map key order)
\* ------------------------------------------------------------------------
Range(s) == {s[i] : i \in 1..Len(s)}

SeqHas(s, x) == \E i \in 1..Len(s) : s[i] = x

SeqAdd(s, x) == IF SeqHas(s, x) THEN s ELSE Append(s, x)

SeqDel(s, x) == SelectSeq(s, LAMBDA y : y # x)

RECURSIVE SeqUnion(_, _)
SeqUnion(s, t) == IF t = <<>> THEN s ELSE SeqUnion(SeqAdd(s, Head(t)), Tail(t))

RECURSIVE Flatten(_)
Flatten(ss) == IF ss = <<>> THEN <<>> ELSE Head(ss) \o Flatten(Tail(ss))

\* f with key k bound to v (Map.set), f without key k (Map.delete)
MapSet(f, k, v) == (k :> v) @@ f

MapDel(f, k) == [x \in (DOMAIN f) \ {k} |-> f[x]]

\* ------------------------------------------------------------------------
\* DepGraph
\* ------------------------------------------------------------------------
NodeIds == {"A", "B", "C"}

EmptyGraph ==
  [nodes |-> <<>>, children |-> <<>>, parents |-> <<>>, depth |-> <<>>,
   roots |-> <<>>]

\* _depth.get(id) ?? 0
DepthOf(g, id) == IF id \in DOMAIN g.depth THEN g.depth[id] ELSE 0

getDepth(g, id) == DepthOf(g, id)

RECURSIVE MaxDepthPlus1(_, _, _)
MaxDepthPlus1(g, ps, maxd) ==
  IF ps = <<>> THEN maxd
  ELSE LET d == DepthOf(g, Head(ps))
       IN MaxDepthPlus1(g, Tail(ps), IF d + 1 > maxd THEN d + 1 ELSE maxd)

calcDepth(g, id) ==
  IF id \notin DOMAIN g.parents \/ g.parents[id] = <<>> THEN 0
  ELSE MaxDepthPlus1(g, g.parents[id], 0)

ChildrenSeq(g, id) == IF id \in DOMAIN g.children THEN g.children[id] ELSE <<>>

ParentsSeq(g, id) == IF id \in DOMAIN g.parents THEN g.parents[id] ELSE <<>>

\* the while loop of _recomputeDepthCascade; q is used as a stack (q.pop())
RECURSIVE CascadeLoop(_, _)
CascadeLoop(g, q) ==
  IF q = <<>> THEN g
  ELSE LET id == q[Len(q)]
           rest == SubSeq(q, 1, Len(q) - 1)
           nd == calcDepth(g, id)
       IN IF nd # DepthOf(g, id)
          THEN CascadeLoop([g EXCEPT !.depth = MapSet(g.depth, id, nd)],
                           rest \o ChildrenSeq(g, id))
          ELSE CascadeLoop(g, rest)

\* a recompute that stops at the start node
recomputeDepthCascade_StartOnly(g, startId) ==
  [g EXCEPT !.depth = MapSet(g.depth, startId, calcDepth(g, startId))]

recomputeDepthCascade(g, startId) ==
  LET newDepth == calcDepth(g, startId)
  IN IF newDepth = DepthOf(g, startId) THEN g
     ELSE CascadeLoop([g EXCEPT !.depth = MapSet(g.depth, startId, newDepth)],
                      ChildrenSeq(g, startId))

addNode(g, id) ==
  IF SeqHas(g.nodes, id) THEN g
  ELSE [nodes |-> Append(g.nodes, id),
        children |-> MapSet(g.children, id, <<>>),
        parents |-> MapSet(g.parents, id, <<>>),
        depth |-> MapSet(g.depth, id, 0),
        roots |-> SeqAdd(g.roots, id)]

\* DFS from the child through children edges; q is a stack.  seen.add(id)
\* returns the Set, so `if (!seen.add(id)) continue` never skips a node.
RECURSIVE CycleLoop(_, _, _, _)
CycleLoop(g, parentId, q, seen) ==
  IF q = <<>> THEN FALSE
  ELSE LET id == q[Len(q)]
           rest == SubSeq(q, 1, Len(q) - 1)
       IN IF id = parentId THEN TRUE
          ELSE CycleLoop(g, parentId, rest \o ChildrenSeq(g, id),
                         seen \cup {id})

wouldCreateCycle(g, parentId, childId) ==
  IF parentId = childId THEN TRUE
  ELSE CycleLoop(g, parentId, <<childId>>, {})

\* an addEdge that reports success when it rejects a cycle
addEdge_Accepting(g, p, c) ==
  IF p = c THEN [g |-> g, res |-> FALSE]
  ELSE IF ~SeqHas(g.nodes, p) \/ ~SeqHas(g.nodes, c)
  THEN [g |-> g, res |-> FALSE]
  ELSE IF wouldCreateCycle(g, p, c) THEN [g |-> g, res |-> TRUE]
  ELSE IF SeqHas(g.children[p], c) THEN [g |-> g, res |-> TRUE]
  ELSE LET wasRoot == g.parents[c] = <<>>
           g1 == [g EXCEPT !.children[p] = Append(@, c),
                           !.parents[c] = Append(@, p),
                           !.roots = IF wasRoot THEN SeqDel(@, c) ELSE @]
       IN [g |-> recomputeDepthCascade(g1, c), res |-> TRUE]

\* an addEdge that links the nodes before it looks for a cycle
addEdge_LinksFirst(g, p, c) ==
  IF p = c THEN [g |-> g, res |-> FALSE]
  ELSE IF ~SeqHas(g.nodes, p) \/ ~SeqHas(g.nodes, c)
  THEN [g |-> g, res |-> FALSE]
  ELSE IF wouldCreateCycle(g, p, c)
  THEN [g |-> [g EXCEPT !.roots = SeqDel(@, c)], res |-> FALSE]
  ELSE IF SeqHas(g.children[p], c) THEN [g |-> g, res |-> TRUE]
  ELSE LET wasRoot == g.parents[c] = <<>>
           g1 == [g EXCEPT !.children[p] = Append(@, c),
                           !.parents[c] = Append(@, p),
                           !.roots = IF wasRoot THEN SeqDel(@, c) ELSE @]
       IN [g |-> recomputeDepthCascade(g1, c), res |-> TRUE]

\* the graph after addEdge(p, c) and the value addEdge returns
addEdge(g, p, c) ==
  IF p = c THEN [g |-> g, res |-> FALSE]
  ELSE IF ~SeqHas(g.nodes, p) \/ ~SeqHas(g.nodes, c)
  THEN [g |-> g, res |-> FALSE]
  ELSE IF wouldCreateCycle(g, p, c) THEN [g |-> g, res |-> FALSE]
  ELSE IF SeqHas(g.children[p], c) THEN [g |-> g, res |-> TRUE]
  ELSE LET wasRoot == g.parents[c] = <<>>
           g1 == [g EXCEPT !.children[p] = Append(@, c),
                           !.parents[c] = Append(@, p),
                           !.roots = IF wasRoot THEN SeqDel(@, c) ELSE @]
       IN [g |-> recomputeDepthCascade(g1, c), res |-> TRUE]

\* a removeEdge that never promotes the child to a root
removeEdge_NoPromote(g, p, c) ==
  IF p \in DOMAIN g.children /\ SeqHas(g.children[p], c)
  THEN recomputeDepthCascade(
         [g EXCEPT !.children[p] = SeqDel(@, c),
                   !.parents[c] = SeqDel(@, p)], c)
  ELSE g

\* removeEdge(p, c)
removeEdge(g, p, c) ==
  IF p \in DOMAIN g.children /\ SeqHas(g.children[p], c)
  THEN LET ps == SeqDel(g.parents[c], p)
           g1 == [g EXCEPT !.children[p] = SeqDel(@, c),
                           !.parents[c] = ps,
                           !.roots = IF ps = <<>> THEN SeqAdd(@, c) ELSE @]
       IN recomputeDepthCascade(g1, c)
  ELSE g

\* the loop of removeNode over the children of the removed node
RECURSIVE DetachChildren(_, _, _)
DetachChildren(g, id, chs) ==
  IF chs = <<>> THEN g
  ELSE LET ch == Head(chs)
           ps == SeqDel(g.parents[ch], id)
           g1 == [g EXCEPT !.parents[ch] = ps,
                           !.roots = IF ps = <<>> THEN SeqAdd(@, ch) ELSE @]
       IN DetachChildren(recomputeDepthCascade(g1, ch), id, Tail(chs))

\* a removeNode that leaves the node in its parents' children sets
removeNode_KeepsBackEdges(g, id) ==
  IF ~SeqHas(g.nodes, id) THEN g
  ELSE LET g2 == DetachChildren(g, id, g.children[id])
       IN [nodes |-> SeqDel(g2.nodes, id),
           children |-> MapDel(g2.children, id),
           parents |-> MapDel(g2.parents, id),
           depth |-> MapDel(g2.depth, id),
           roots |-> SeqDel(g2.roots, id)]

\* removeNode(id)
removeNode(g, id) ==
  IF ~SeqHas(g.nodes, id) THEN g
  ELSE LET g1 == [g EXCEPT
                    !.children = [p \in DOMAIN @ |->
                                    IF SeqHas(g.parents[id], p)
                                    THEN SeqDel(@[p], id) ELSE @[p]]]
           g2 == DetachChildren(g1, id, g1.children[id])
       IN [nodes |-> SeqDel(g2.nodes, id),
           children |-> MapDel(g2.children, id),
           parents |-> MapDel(g2.parents, id),
           depth |-> MapDel(g2.depth, id),
           roots |-> SeqDel(g2.roots, id)]

\* BFS closure of expandByTraversal; edges is g.children or g.parents
RECURSIVE ExpandLoop(_, _, _, _)
ExpandLoop(g, edges, queue, out) ==
  IF queue = <<>> THEN out
  ELSE LET id == Head(queue)
           next == IF id \in DOMAIN edges THEN edges[id] ELSE <<>>
           fresh == SelectSeq(next,
                      LAMBDA x : SeqHas(g.nodes, x) /\ ~SeqHas(out, x))
       IN ExpandLoop(g, edges, Tail(queue) \o fresh, out \o fresh)

\* an expansion that walks the parents edges for 'dirty-and-down'
expandByTraversal_Up(g, base, traversal) ==
  LET inGraph == SelectSeq(base, LAMBDA n : SeqHas(g.nodes, n))
  IN CASE traversal = "all" -> g.nodes
       [] traversal = "dirty-only" -> inGraph
       [] OTHER -> ExpandLoop(g, g.parents, inGraph, inGraph)

\* base is the ordered set of matched nodes (ignored for 'all')
expandByTraversal(g, base, traversal) ==
  LET inGraph == SelectSeq(base, LAMBDA n : SeqHas(g.nodes, n))
  IN CASE traversal = "all" -> g.nodes
       [] traversal = "dirty-only" -> inGraph
       [] traversal = "dirty-and-down" ->
            ExpandLoop(g, g.children, inGraph, inGraph)
       [] traversal = "dirty-and-up" ->
            ExpandLoop(g, g.parents, inGraph, inGraph)
       [] OTHER -> <<>>

\* ------------------------------------------------------------------------
\* MinHeap.  The heap is the live prefix _a[0 .. _size-1] of the backing
\* array (1-based here); slots beyond _size are never read.
\* ------------------------------------------------------------------------
RECURSIVE siftUpLoop(_, _, _)
siftUpLoop(a, i, x) ==
  IF i > 1
  THEN LET p == i \div 2
       IN IF x >= a[p] THEN [a EXCEPT ![i] = x]
          ELSE siftUpLoop([a EXCEPT ![i] = a[p]], p, x)
  ELSE [a EXCEPT ![i] = x]

siftUp(a, i) == siftUpLoop(a, i, a[i])

RECURSIVE siftDownLoop(_, _, _)
siftDownLoop(a, i, x) ==
  LET n == Len(a)
      half == n \div 2
  IN IF i <= half
     THEN LET l == 2 * i
              r == l + 1
              child == IF r <= n /\ a[r] < a[l] THEN r ELSE l
              y == a[child]
          IN IF x <= y THEN [a EXCEPT ![i] = x]
             ELSE siftDownLoop([a EXCEPT ![i] = y], child, x)
     ELSE [a EXCEPT ![i] = x]

\* a mutant that leaves the element where it is
siftDown_Stay(a, i) == a

siftDown(a, i) == siftDownLoop(a, i, a[i])

\* a push that stores the value twice
heapPush_Twice(a, x) ==
  siftUp(Append(siftUp(Append(a, x), Len(a) + 1), x), Len(a) + 2)

heapPush(a, x) == siftUp(Append(a, x), Len(a) + 1)

\* the heap after pop(); the popped value is a[1]
heapPop(a) ==
  LET n == Len(a)
  IN IF n = 0 THEN a
     ELSE IF n = 1 THEN <<>>
     ELSE siftDown([i \in 1..(n - 1) |-> IF i = 1 THEN a[n] ELSE a[i]], 1)

\* the MinHeap object: the backing array and the size.  What a slot beyond
\* _size holds stays there until a push overwrites it.
NewHeap == [a |-> <<>>, size |-> 0]

Live(h) == SubSeq(h.a, 1, h.size)

\* the object once its live prefix became `live`
Backed(h, live) ==
  [a |-> live \o SubSeq(h.a, Len(live) + 1, Len(h.a)), size |-> Len(live)]

heapClear(h, preserveCapacity) ==
  IF preserveCapacity THEN [h EXCEPT !.size = 0] ELSE NewHeap

\* push(x) on the object
heapPushOn(h, x) == Backed(h, heapPush(Live(h), x))

\* pop() on the object: what it returns (-1 for undefined) and the object
heapPopOn(h) ==
  IF h.size = 0 THEN [h |-> h, res |-> -1]
  ELSE [h |-> [a |-> heapPop(Live(h)) \o SubSeq(h.a, h.size, Len(h.a)),
               size |-> h.size - 1],
        res |-> h.a[1]]

replaceTop(h, x) ==
  IF h.size = 0 THEN [h |-> heapPushOn(h, x), res |-> -1]
  ELSE [h |-> Backed(h, siftDown([Live(h) EXCEPT ![1] = x], 1)),
        res |-> h.a[1]]

\* Floyd's construction: _siftDown(i) for i from (n >> 1) - 1 down to 0
RECURSIVE floydLoop(_, _)
floydLoop(a, i) == IF i < 1 THEN a ELSE floydLoop(siftDown(a, i), i - 1)

buildFrom(h, src) == [a |-> floydLoop(src, Len(src) \div 2), size |-> Len(src)]

\* ------------------------------------------------------------------------
\* RaphRouter: the pattern trie.  A trie node is named by the sequence of
\* edges that leads to it from the root; `order` lists the nodes in creation
\* order (the key order of the `exact` objects), `end` and `deep` are the
\* payload sets of each node.
\* ------------------------------------------------------------------------
KeySeg(k) == [kind |-> "Key", key |-> k]

\* [n]: an array index (written as its digits)
IndexSeg(n) == [kind |-> "Index", index |-> n]

WildSeg == [kind |-> "Wildcard", key |-> "*", asIndex |-> FALSE]

\* [*]: the index wildcard
IndexWildSeg == [kind |-> "Wildcard", key |-> "*", asIndex |-> TRUE]

\* values of a Param segment: a number, a string, or the string '$' + name
NumVal(v) == [v |-> v, typ |-> "number", dollar |-> FALSE]

StrVal(v) == [v |-> v, typ |-> "string", dollar |-> FALSE]

VarVal(name) == [v |-> name, typ |-> "string", dollar |-> TRUE]

\* [pk=pv]
ParamSeg(pk, pv) == [kind |-> "Param", pkey |-> pk, pval |-> pv]

\* [$name]: the index placeholder
IndexVarSeg(name) == ParamSeg("$index", VarVal(name))

\* typeof s.pval === 'string' && s.pval.startsWith('$')
isPlaceholder(pv) == pv.typ = "string" /\ pv.dollar

keyLiteralStr(k) == <<"S", k>>

keyIndex(n) == <<"I", n>>

keyParam(pk, pv) ==
  <<"P", pk, IF pv.typ = "number" THEN "#n" ELSE "#s",
    IF pv.dollar THEN "$" ELSE "", pv.v>>

ExactEdge(k) == [t |-> "exact", k |-> k]

WcEdge == [t |-> "wc", k |-> <<>>]

\* node.param[pk][keyParam(pk, pv)]
ParamEdge(pvKey) == [t |-> "param", k |-> pvKey]

\* node.paramAny[pk].node
AnyEdge(pk) == [t |-> "any", k |-> <<pk>>]

\* `var` holds the varName of every paramAny entry, by its child node
EmptyRouter ==
  [order |-> << <<>> >>, end |-> (<<>> :> <<>>), deep |-> (<<>> :> <<>>),
   var |-> <<>>]

HasTrieNode(tr, n) == n \in DOMAIN tr.end

\* node.addExact / node.addWildcard / node.addParam: the child, created when
\* absent
addChild(tr, n, edge) ==
  LET c == Append(n, edge)
  IN IF HasTrieNode(tr, c) THEN tr
     ELSE [order |-> Append(tr.order, c),
           end |-> MapSet(tr.end, c, <<>>),
           deep |-> MapSet(tr.deep, c, <<>>),
           var |-> tr.var]

\* node.addParamAny: the entry keeps the varName it was created with
addParamAny(tr, n, pk, varName) ==
  LET c == Append(n, AnyEdge(pk))
  IN IF HasTrieNode(tr, c) THEN tr
     ELSE [addChild(tr, n, AnyEdge(pk)) EXCEPT !.var = MapSet(@, c, varName)]

\* the edge add() follows for a segment of a mask
SegEdge(s) ==
  IF s.kind = "Key" THEN ExactEdge(keyLiteralStr(s.key))
  ELSE IF s.kind = "Index" THEN ExactEdge(keyIndex(s.index))
  ELSE IF s.kind = "Wildcard" THEN WcEdge
  ELSE IF isPlaceholder(s.pval) THEN AnyEdge(s.pkey)
  ELSE ParamEdge(keyParam(s.pkey, s.pval))

RECURSIVE addLoop(_, _, _, _, _)
addLoop(tr, node, segs, i, payload) ==
  IF i > Len(segs)
  THEN [tr EXCEPT !.end[node] = SeqAdd(@, payload)]
  ELSE LET s == segs[i]
           last == i = Len(segs)
       IN IF s.kind = "Wildcard" /\ last
          THEN [tr EXCEPT !.deep[node] = SeqAdd(@, payload)]
          ELSE addLoop(IF s.kind = "Param" /\ isPlaceholder(s.pval)
                       THEN addParamAny(tr, node, s.pkey, s.pval.v)
                       ELSE addChild(tr, node, SegEdge(s)),
                       Append(node, SegEdge(s)), segs, i + 1, payload)

routerAdd(tr, mask, payload) == addLoop(tr, <<>>, mask, 1, payload)

\* the children pushed for one popped stack entry of match(), in push order
matchPushes(tr, segs, node, i) ==
  LET s == segs[i]
      ex == Append(node, ExactEdge(IF s.kind = "Key"
                                   THEN keyLiteralStr(s.key)
                                   ELSE keyIndex(s.index)))
      wc == Append(node, WcEdge)
      pm == Append(node, ParamEdge(keyParam(s.pkey, s.pval)))
      any == Append(node, AnyEdge(s.pkey))
      idx == Append(node, AnyEdge("$index"))
  IN (IF s.kind \in {"Key", "Index"} /\ HasTrieNode(tr, ex)
      THEN << [node |-> ex, i |-> i + 1] >> ELSE <<>>)
     \o (IF HasTrieNode(tr, wc)
         THEN << [node |-> wc, i |-> i + 1] >> ELSE <<>>)
     \o (IF s.kind = "Param" /\ HasTrieNode(tr, pm)
         THEN << [node |-> pm, i |-> i + 1] >> ELSE <<>>)
     \o (IF s.kind = "Param" /\ HasTrieNode(tr, any)
         THEN << [node |-> any, i |-> i + 1] >> ELSE <<>>)
     \o (IF s.kind = "Index" /\ HasTrieNode(tr, idx)
         THEN << [node |-> idx, i |-> i + 1] >> ELSE <<>>)

RECURSIVE matchLoop(_, _, _, _)
matchLoop(tr, segs, stk, out) ==
  IF stk = <<>> THEN out
  ELSE LET top == stk[Len(stk)]
           rest == SubSeq(stk, 1, Len(stk) - 1)
           out1 == SeqUnion(out, tr.deep[top.node])
       IN IF top.i = Len(segs) + 1
          THEN matchLoop(tr, segs, rest, SeqUnion(out1, tr.end[top.node]))
          ELSE matchLoop(tr, segs,
                         rest \o matchPushes(tr, segs, top.node, top.i), out1)

routerMatch(tr, path) == matchLoop(tr, path, << [node |-> <<>>, i |-> 1] >>, <<>>)

\* the value a placeholder transition captures: s.pval, or s.index
CapturedValue(s) == IF s.kind = "Index" THEN NumVal(s.index) ELSE s.pval

\* { ...caps, [varName]: value }
withCap(caps, varName, val) == MapSet(MapDel(caps, varName), varName, val)

\* the children pushed for one popped stack entry of matchWithParams()
paramPushes(tr, segs, node, i, caps) ==
  LET s == segs[i]
      any == Append(node, AnyEdge(s.pkey))
      idx == Append(node, AnyEdge("$index"))
      plain == SelectSeq(matchPushes(tr, segs, node, i),
                         LAMBDA e : e.node[Len(e.node)].t # "any")
  IN [k \in 1..Len(plain) |->
        [node |-> plain[k].node, i |-> i + 1, caps |-> caps]]
     \o (IF s.kind = "Param" /\ HasTrieNode(tr, any)
         THEN << [node |-> any, i |-> i + 1,
                  caps |-> withCap(caps, tr.var[any], CapturedValue(s))] >>
         ELSE <<>>)
     \o (IF s.kind = "Index" /\ HasTrieNode(tr, idx)
         THEN << [node |-> idx, i |-> i + 1,
                  caps |-> withCap(caps, tr.var[idx], CapturedValue(s))] >>
         ELSE <<>>)

\* out.push({ payload: p, params: caps }) for every p of a payload set
withParams(ps, caps) ==
  [k \in 1..Len(ps) |-> [payload |-> ps[k], params |-> caps]]

RECURSIVE paramLoop(_, _, _, _)
paramLoop(tr, segs, stk, out) ==
  IF stk = <<>> THEN out
  ELSE LET top == stk[Len(stk)]
           rest == SubSeq(stk, 1, Len(stk) - 1)
           out1 == out \o withParams(tr.deep[top.node], top.caps)
       IN IF top.i = Len(segs) + 1
          THEN paramLoop(tr, segs, rest,
                         out1 \o withParams(tr.end[top.node], top.caps))
          ELSE paramLoop(tr, segs,
                         rest \o paramPushes(tr, segs, top.node, top.i,
                                             top.caps),
                         out1)

routerMatchWithParams(tr, path) ==
  paramLoop(tr, path, << [node |-> <<>>, i |-> 1, caps |-> <<>>] >>, <<>>)

\* the node collectByPrefix arrives at, or "none"
RECURSIVE prefixDescend(_, _, _, _)
prefixDescend(tr, segs, i, node) ==
  IF i > Len(segs) THEN [found |-> TRUE, node |-> node]
  ELSE LET s == segs[i]
           nx == IF s.kind = "Key"
                 THEN Append(node, ExactEdge(keyLiteralStr(s.key)))
                 ELSE IF s.kind = "Index"
                 THEN Append(node, ExactEdge(keyIndex(s.index)))
                 ELSE Append(node, ParamEdge(keyParam(s.pkey, s.pval)))
       IN IF s.kind # "Wildcard" /\ HasTrieNode(tr, nx)
          THEN prefixDescend(tr, segs, i + 1, nx)
          ELSE [found |-> FALSE, node |-> <<>>]

\* children of a trie node in the order the subtree DFS pushes them:
\* exact children in key order, then the wildcard child, then the children
\* of literal params; paramAny entries are not followed
subtreePushes(tr, n) ==
  SelectSeq(tr.order,
            LAMBDA c : Len(c) = Len(n) + 1 /\ SubSeq(c, 1, Len(n)) = n
                       /\ c[Len(c)].t = "exact")
  \o SelectSeq(tr.order, LAMBDA c : c = Append(n, WcEdge))
  \o SelectSeq(tr.order,
               LAMBDA c : Len(c) = Len(n) + 1 /\ SubSeq(c, 1, Len(n)) = n
                          /\ c[Len(c)].t = "param")

RECURSIVE subtreeLoop(_, _, _)
subtreeLoop(tr, stk, out) ==
  IF stk = <<>> THEN out
  ELSE LET n == stk[Len(stk)]
           rest == SubSeq(stk, 1, Len(stk) - 1)
       IN subtreeLoop(tr, rest \o subtreePushes(tr, n),
                      SeqUnion(SeqUnion(out, tr.deep[n]), tr.end[n]))

collectByPrefix(tr, prefix) ==
  LET d == prefixDescend(tr, prefix, 1, <<>>)
  IN IF ~d.found THEN <<>> ELSE subtreeLoop(tr, << d.node >>, <<>>)

\* a lookup that returns every payload registered in the trie
matchIncludingPrefix_All(tr, path) ==
  SeqUnion(routerMatch(tr, path), collectByPrefix(tr, <<>>))

matchIncludingPrefix(tr, path) ==
  LET exact == routerMatch(tr, path)
      below == collectByPrefix(tr, path)
  IN IF below = <<>> THEN exact ELSE SeqUnion(exact, below)

\* removePayload(): the walk deletes the payload from `end` and `deep` of
\* every node it visits
RECURSIVE removePayloadLoop(_, _, _)
removePayloadLoop(tr, stk, payload) ==
  IF stk = <<>> THEN tr
  ELSE LET n == stk[Len(stk)]
           rest == SubSeq(stk, 1, Len(stk) - 1)
       IN removePayloadLoop([tr EXCEPT !.end[n] = SeqDel(@, payload),
                                       !.deep[n] = SeqDel(@, payload)],
                            rest \o subtreePushes(tr, n), payload)

routerRemovePayload(tr, payload) == removePayloadLoop(tr, << <<>> >>, payload)

\* remove() called without a payload
NoPayload == "undefined"

\* the edge remove() follows for a segment of a mask: a Param segment is
\* looked up in node.param, whatever its value
RemoveEdge(s) ==
  IF s.kind = "Key" THEN ExactEdge(keyLiteralStr(s.key))
  ELSE IF s.kind = "Index" THEN ExactEdge(keyIndex(s.index))
  ELSE IF s.kind = "Wildcard" THEN WcEdge
  ELSE ParamEdge(keyParam(s.pkey, s.pval))

\* payload ? set.delete(payload) : set.clear()
dropFrom(ps, payload) == IF payload = NoPayload THEN <<>> ELSE SeqDel(ps, payload)

\* remove(): the trie afterwards, and whether the version was bumped
RECURSIVE removeLoop(_, _, _, _, _)
removeLoop(tr, node, segs, i, payload) ==
  IF i > Len(segs)
  THEN IF tr.end[node] # <<>>
       THEN [tr |-> [tr EXCEPT !.end[node] = dropFrom(@, payload)],
             bumped |-> TRUE]
       ELSE [tr |-> tr, bumped |-> FALSE]
  ELSE LET s == segs[i]
           last == i = Len(segs)
           next == Append(node, RemoveEdge(s))
       IN IF s.kind = "Wildcard" /\ last
          THEN IF tr.deep[node] # <<>>
               THEN [tr |-> [tr EXCEPT !.deep[node] = dropFrom(@, payload)],
                     bumped |-> TRUE]
               ELSE [tr |-> tr, bumped |-> FALSE]
          ELSE IF ~HasTrieNode(tr, next) THEN [tr |-> tr, bumped |-> FALSE]
          ELSE removeLoop(tr, next, segs, i + 1, payload)

routerRemove(tr, mask, payload) == removeLoop(tr, <<>>, mask, 1, payload)

\* ------------------------------------------------------------------------
\* RaphRouter: the object, with its version counter and its caches.  A cache
\* maps the path to { v, res }.
\* ------------------------------------------------------------------------
NewRouter ==
  [root |-> EmptyRouter, version |-> 0, matchCache |-> <<>>,
   prefixCache |-> <<>>]

cacheRead(cache, version, pathKey) ==
  IF pathKey \in DOMAIN cache /\ cache[pathKey].v = version
  THEN [hit |-> TRUE, res |-> cache[pathKey].res]
  ELSE [hit |-> FALSE, res |-> <<>>]

cacheWrite(cache, version, pathKey, res) ==
  MapSet(MapDel(cache, pathKey), pathKey, [v |-> version, res |-> res])

\* a version counter that stands still
bumpVersion_Frozen(R) == R

bumpVersion(R) ==
  LET v == R.version + 1
  IN IF v % 1024 = 0
     THEN [R EXCEPT !.version = v, !.matchCache = <<>>, !.prefixCache = <<>>]
     ELSE [R EXCEPT !.version = v]

resetCaches(R) ==
  [R EXCEPT !.matchCache = <<>>, !.prefixCache = <<>>, !.version = @ + 1]

addCall(R, mask, payload) ==
  bumpVersion([R EXCEPT !.root = routerAdd(@, mask, payload)])

removePayloadCall(R, payload) ==
  bumpVersion([R EXCEPT !.root = routerRemovePayload(@, payload)])

removeCall(R, mask, payload) ==
  LET r == routerRemove(R.root, mask, payload)
  IN IF r.bumped THEN bumpVersion([R EXCEPT !.root = r.tr]) ELSE R

removeAllCall(R) == resetCaches([R EXCEPT !.root = EmptyRouter])

\* the queries return the router (its caches written) and the result
matchCall(R, path) ==
  LET c == cacheRead(R.matchCache, R.version, path)
      out == routerMatch(R.root, path)
  IN IF c.hit THEN [R |-> R, res |-> c.res, hit |-> TRUE]
     ELSE [R |-> [R EXCEPT !.matchCache = cacheWrite(@, R.version, path, out)],
           res |-> out, hit |-> FALSE]

collectByPrefixCall(R, prefix) ==
  LET c == cacheRead(R.prefixCache, R.version, prefix)
      out == collectByPrefix(R.root, prefix)
  IN IF c.hit THEN [R |-> R, res |-> c.res, hit |-> TRUE]
     ELSE [R |-> [R EXCEPT !.prefixCache = cacheWrite(@, R.version, prefix, out)],
           res |-> out, hit |-> FALSE]

matchIncludingPrefixCall(R, path) ==
  LET exact == matchCall(R, path)
      below == collectByPrefixCall(exact.R, path)
  IN [R |-> below.R,
      res |-> IF below.res = <<>> THEN exact.res
              ELSE SeqUnion(exact.res, below.res),
      hit |-> exact.hit /\ below.hit]

matchWithParamsCall(R, path) ==
  [R |-> R, res |-> routerMatchWithParams(R.root, path), hit |-> FALSE]

\* DataPath.match(mask, target): the pair matcher
RECURSIVE dataPathMatchLoop(_, _, _)
dataPathMatchLoop(m, t, i) ==
  IF i > Len(m) THEN i - 1 = Len(t)
  ELSE LET ms == m[i]
       IN IF ms.kind = "Wildcard" /\ ~ms.asIndex /\ i = Len(m) THEN TRUE
          ELSE IF i > Len(t) THEN FALSE
          ELSE LET ts == t[i]
                   ok == IF ms.kind = "Key"
                         THEN ts.kind = "Key" /\ ts.key = ms.key
                         ELSE IF ms.kind = "Index"
                         THEN ts.kind = "Index" /\ ts.index = ms.index
                         ELSE IF ms.kind = "Wildcard" THEN TRUE
                         ELSE /\ ts.kind = "Param"
                              /\ ts.pkey = ms.pkey
                              /\ ts.pval = ms.pval
               IN ok /\ dataPathMatchLoop(m, t, i + 1)

dataPathMatch(mask, target) == dataPathMatchLoop(mask, target, 1)

\* ------------------------------------------------------------------------
\* DataPath: strings.  A path string is a sequence of characters; the keys
\* and the string values of its segments are sequences of characters too,
\* and an index or a numeric value is a number.
\* ------------------------------------------------------------------------
DigitChars == <<"0", "1", "2", "3", "4", "5", "6", "7", "8", "9">>

isDigit(c) == \E i \in 1..10 : DigitChars[i] = c

\* the letters that occur in the paths of the model
LetterChars == {"a", "b", "k"}

\* [a-zA-Z_$]
isIdentStart(c) == c \in LetterChars \cup {"_", "$"}

\* [\w$]
isIdentPart(c) == isIdentStart(c) \/ isDigit(c)

\* /^\d+$/
allDigits(s) == s # <<>> /\ \A i \in 1..Len(s) : isDigit(s[i])

\* Number(s) of a string of digits
RECURSIVE NumberOf(_)
NumberOf(s) ==
  IF s = <<>> THEN 0
  ELSE 10 * NumberOf(SubSeq(s, 1, Len(s) - 1))
       + (CHOOSE i \in 1..10 : DigitChars[i] = s[Len(s)]) - 1

\* String(n) of a number
RECURSIVE DigitsOf(_)
DigitsOf(n) ==
  IF n < 10 THEN <<DigitChars[n + 1]>>
  ELSE Append(DigitsOf(n \div 10), DigitChars[(n % 10) + 1])

\* s.trim()
RECURSIVE Trim(_)
Trim(s) ==
  IF s = <<>> THEN s
  ELSE IF Head(s) = " " THEN Trim(Tail(s))
  ELSE IF s[Len(s)] = " " THEN Trim(SubSeq(s, 1, Len(s) - 1))
  ELSE s

\* the characters of a string literal inside brackets, from position i, up
\* to and including the closing quote q
RECURSIVE quoteScan(_, _, _, _)
quoteScan(path, i, q, sb) ==
  IF i > Len(path) THEN [i |-> i, sb |-> sb]
  ELSE IF path[i] = "\\"
  THEN IF i + 1 <= Len(path)
       THEN quoteScan(path, i + 2, q, sb \o <<path[i], path[i + 1]>>)
       ELSE quoteScan(path, i + 1, q, Append(sb, path[i]))
  ELSE IF path[i] = q THEN [i |-> i + 1, sb |-> Append(sb, path[i])]
  ELSE quoteScan(path, i + 1, q, Append(sb, path[i]))

\* the characters of a bracket block from position i (after the '['), and
\* the position after its ']'
RECURSIVE bracketScan(_, _, _, _)
bracketScan(path, i, depth, sb) ==
  IF i > Len(path) THEN [i |-> i, sb |-> sb]
  ELSE IF path[i] \in {"\"", "'"}
  THEN bracketScan(path, quoteScan(path, i + 1, path[i], Append(sb, path[i])).i,
                   depth,
                   quoteScan(path, i + 1, path[i], Append(sb, path[i])).sb)
  ELSE IF path[i] = "["
  THEN bracketScan(path, i + 1, depth + 1, Append(sb, path[i]))
  ELSE IF path[i] = "]"
  THEN IF depth = 1 THEN [i |-> i + 1, sb |-> sb]
       ELSE bracketScan(path, i + 1, depth - 1, Append(sb, path[i]))
  ELSE bracketScan(path, i + 1, depth, Append(sb, path[i]))

\* the length of the longest prefix of s that is an identifier
identLen(s) ==
  IF s = <<>> \/ ~isIdentStart(s[1]) THEN 0
  ELSE CHOOSE k \in 1..Len(s) :
         /\ \A i \in 2..k : isIdentPart(s[i])
         /\ (k = Len(s) \/ ~isIdentPart(s[k + 1]))

\* the position of the first character of s after position k that is not a
\* space (Len(s) + 1 when there is none)
skipSpaces(s, k) ==
  CHOOSE j \in (k + 1)..(Len(s) + 1) :
    /\ \A i \in (k + 1)..(j - 1) : s[i] = " "
    /\ (j = Len(s) + 1 \/ s[j] # " ")

\* the value of [key=value]: a placeholder, a number or a string
paramValue(rawVal, quoted) ==
  IF ~quoted /\ rawVal # <<>> /\ rawVal[1] = "$" THEN VarVal(Tail(rawVal))
  ELSE IF ~quoted /\ allDigits(rawVal) THEN NumVal(NumberOf(rawVal))
  ELSE IF quoted THEN StrVal(SubSeq(rawVal, 2, Len(rawVal) - 1))
  ELSE StrVal(rawVal)

isQuoted(rawVal) ==
  /\ rawVal # <<>>
  /\ \/ rawVal[1] = "\"" /\ rawVal[Len(rawVal)] = "\""
     \/ rawVal[1] = "'" /\ rawVal[Len(rawVal)] = "'"

\* the segments (none or one) of the bracket block with the text `inner`;
\* k is identLen(inner) and j the position of the '=' if the block has the
\* form key=value
bracketSegment(inner, k, j) ==
  IF inner = <<>> THEN <<>>
  ELSE IF allDigits(inner) THEN << IndexSeg(NumberOf(inner)) >>
  ELSE IF inner = <<"*">> THEN << IndexWildSeg >>
  ELSE IF /\ inner[1] = "$" /\ Len(inner) >= 2
          /\ inner[2] \in LetterChars \cup {"_"}
          /\ \A i \in 3..Len(inner) : isIdentPart(inner[i]) /\ inner[i] # "$"
  THEN << IndexVarSeg(Tail(inner)) >>
  ELSE IF k >= 1 /\ j < Len(inner) /\ inner[j] = "="
  THEN << ParamSeg(SubSeq(inner, 1, k),
                   paramValue(Trim(SubSeq(inner, j + 1, Len(inner))),
                              isQuoted(Trim(SubSeq(inner, j + 1, Len(inner)))))) >>
  ELSE << KeySeg(inner) >>

\* the segments (none or one) of the dotted piece `raw`
dotSegment(raw) ==
  IF raw = <<>> THEN <<>>
  ELSE IF raw = <<"*">> \/ raw[1] = "$" THEN << WildSeg >>
  ELSE << KeySeg(raw) >>

\* the end of the dotted piece that starts at i: the next '.' or '['
dotEnd(path, i) ==
  CHOOSE e \in i..(Len(path) + 1) :
    /\ \A x \in i..(e - 1) : path[x] \notin {".", "["}
    /\ (e = Len(path) + 1 \/ path[e] \in {".", "["})

\* the segments of a bracket block whose text is sc.sb
bracketOf(inner) ==
  bracketSegment(inner, identLen(inner), skipSpaces(inner, identLen(inner)))

RECURSIVE parseLoop(_, _, _)
parseLoop(path, i, segs) ==
  IF i > Len(path) THEN segs
  ELSE IF path[i] = "." THEN parseLoop(path, i + 1, segs)
  ELSE IF path[i] = "["
  THEN parseLoop(path, bracketScan(path, i + 1, 1, <<>>).i,
                 segs \o bracketOf(Trim(bracketScan(path, i + 1, 1, <<>>).sb)))
  ELSE parseLoop(path, dotEnd(path, i),
                 segs \o dotSegment(Trim(SubSeq(path, i, dotEnd(path, i) - 1))))

\* DataPath._parseSegments
parseSegments(path) == parseLoop(path, 1, <<>>)

\* JSON.stringify of a string
RECURSIVE jsonChars(_)
jsonChars(s) ==
  IF s = <<>> THEN <<>>
  ELSE (IF Head(s) \in {"\"", "\\"} THEN <<"\\", Head(s)>> ELSE <<Head(s)>>)
       \o jsonChars(Tail(s))

\* the string a Param value holds
paramString(pv) == IF pv.dollar THEN <<"$">> \o pv.v ELSE pv.v

\* the text toStringPath appends for the segment s when the text so far is out
segmentText(out, s) ==
  CASE s.kind = "Key" -> IF out = <<>> THEN s.key ELSE <<".">> \o s.key
    [] s.kind = "Index" -> <<"[">> \o DigitsOf(s.index) \o <<"]">>
    [] s.kind = "Wildcard" ->
         IF s.asIndex THEN <<"[", "*", "]">>
         ELSE IF out = <<>> \/ out[Len(out)] \in {"]", "*"} THEN <<"*">>
         ELSE <<".", "*">>
    [] OTHER ->
         <<"[">> \o s.pkey \o <<"=">>
         \o (IF s.pval.typ = "number" THEN DigitsOf(s.pval.v)
             ELSE <<"\"">> \o jsonChars(paramString(s.pval)) \o <<"\"">>)
         \o <<"]">>

RECURSIVE toStringLoop(_, _, _)
toStringLoop(segs, i, out) ==
  IF i > Len(segs) THEN out
  ELSE toStringLoop(segs, i + 1, out \o segmentText(out, segs[i]))

\* DataPath.toStringPath
toStringPath(segs) == toStringLoop(segs, 1, <<>>)

\* ------------------------------------------------------------------------
\* DefaultDataAdapter
\* ------------------------------------------------------------------------
\* The document is a tree of tagged values.  An array carries its identity
\* (the WeakMap key of its indexes); a hole of an array and a missing field
\* read as undefined.  Named properties of arrays are not modelled.
Undef == [t |-> "undefined"]

\* a number or a string, as a ParamValue
Val(pv) == [t |-> "value", pv |-> pv]

Obj(f) == [t |-> "object", f |-> f]

Arr(id, a) == [t |-> "array", id |-> id, a |-> a]

isPlainObject(x) == x.t = "object"

\* Array.isArray(x)
isArray(x) == x.t = "array"

\* x == null
isNullish(x) == x.t = "undefined"

\* Number(inner) of an index segment
IndexNum(digits) ==
  CASE digits = "0" -> 0 [] digits = "1" -> 1 [] digits = "2" -> 2
    [] OTHER -> 3

KeyStep(k) == [s |-> "key", key |-> k]

IdxStep(i) == [s |-> "idx", i |-> i]

\* c[key] or c[i]
Member(c, st) ==
  IF st.s = "key"
  THEN IF c.t = "object" /\ st.key \in DOMAIN c.f THEN c.f[st.key] ELSE Undef
  ELSE IF c.t = "array" /\ st.i < Len(c.a) THEN c.a[st.i + 1] ELSE Undef

\* the value a cursor refers to: the steps taken from the root
RECURSIVE ReadAt(_, _)
ReadAt(v, loc) ==
  IF loc = <<>> THEN v ELSE ReadAt(Member(v, Head(loc)), Tail(loc))

\* arr[i] = x: the array grows, leaving holes, when i is past its end
PutIndex(a, i, x) ==
  [j \in 1..(IF i + 1 > Len(a) THEN i + 1 ELSE Len(a)) |->
     IF j = i + 1 THEN x ELSE IF j <= Len(a) THEN a[j] ELSE Undef]

\* c[key] = x or c[i] = x
Assign(c, st, x) ==
  IF st.s = "key"
  THEN IF c.t = "object" THEN Obj(MapSet(c.f, st.key, x)) ELSE c
  ELSE IF c.t = "array" THEN Arr(c.id, PutIndex(c.a, st.i, x)) ELSE c

\* the root after the value the cursor refers to became x
RECURSIVE WriteAt(_, _, _)
WriteAt(v, loc, x) ==
  IF loc = <<>> THEN x
  ELSE Assign(v, Head(loc), WriteAt(Member(v, Head(loc)), Tail(loc), x))

\* arr.splice(i, 1)
SpliceOut(a, i) == [j \in 1..(Len(a) - 1) |-> IF j <= i THEN a[j] ELSE a[j + 1]]

\* `now`, `replacedAt`, `staleHit` and `discarded` are history: the number
\* of the call in progress, per array the call that last replaced an element
\* by position, whether a lookup was answered from an index entry older than
\* that, and whether the indexes of an array were rebuilt over dirty ones.
NewAdapter(initial, indexEnabled, arrayDelete, indexStrategy, autoCreate) ==
  [root |-> initial, indexes |-> <<>>, indexDirty |-> <<>>,
   arrayDelete |-> arrayDelete, autoCreate |-> autoCreate,
   indexEnabled |-> indexEnabled, indexStrategy |-> indexStrategy,
   nextId |-> 10, now |-> 0, replacedAt |-> <<>>, staleHit |-> FALSE,
   discarded |-> FALSE]

clearAllIndexes(A) == [A EXCEPT !.indexes = <<>>, !.indexDirty = <<>>]

\* a ParamValue of a segment as a document value; a placeholder is read with
\* this.get('$name'), which is undefined without vars
PvalValue(pv) == IF isPlaceholder(pv) THEN Undef ELSE Val(pv)

linearFindIndex(arr, pkey, pval) ==
  LET hits == {i \in 1..Len(arr.a) :
                 /\ isPlainObject(arr.a[i])
                 /\ Member(arr.a[i], KeyStep(pkey)) = pval}
  IN IF hits = {} THEN -1
     ELSE (CHOOSE i \in hits : \A j \in hits : i <= j) - 1

\* the bucket of key k built by a scan of the array: value -> last index
BuiltBucket(arr, k, now) ==
  LET simple(i) == /\ isPlainObject(arr.a[i])
                   /\ k \in DOMAIN arr.a[i].f
                   /\ arr.a[i].f[k].t = "value"
      at(v) == {i \in 1..Len(arr.a) : simple(i) /\ arr.a[i].f[k] = v}
      vals == {arr.a[i].f[k] : i \in {j \in 1..Len(arr.a) : simple(j)}}
  IN [v \in vals |->
        [idx |-> (CHOOSE i \in at(v) : \A j \in at(v) : j <= i) - 1,
         at |-> now]]

\* _ensureIndex(arr, pkey): the adapter afterwards; the bucket it returns is
\* indexes[arr.id][pkey]
\* the indexes of a (re)built array: under 'eager-all-keys' a bucket for
\* every key with a string or number value, under 'lazy-key' none yet
BuiltIndexes(A, arr) ==
  IF A.indexStrategy = "eager-all-keys"
  THEN [k \in {k \in UNION {DOMAIN arr.a[i].f :
                              i \in {j \in 1..Len(arr.a) :
                                       isPlainObject(arr.a[j])}} :
                 DOMAIN BuiltBucket(arr, k, A.now) # {}} |->
          BuiltBucket(arr, k, A.now)]
  ELSE <<>>

\* the bucket of pkey is built when byKey lacks it
WithBucket(byKey, arr, pkey, now) ==
  IF pkey \in DOMAIN byKey THEN byKey
  ELSE MapSet(byKey, pkey, BuiltBucket(arr, pkey, now))

ensureIndex(A, arr, pkey) ==
  IF \/ arr.id \notin DOMAIN A.indexes
     \/ (arr.id \in DOMAIN A.indexDirty /\ A.indexDirty[arr.id])
  THEN [A EXCEPT !.indexes = MapSet(@, arr.id, WithBucket(BuiltIndexes(A, arr),
                                                         arr, pkey, A.now)),
                 !.indexDirty = MapSet(@, arr.id, FALSE),
                 !.discarded = @ \/ arr.id \in DOMAIN A.indexes]
  ELSE [A EXCEPT !.indexes[arr.id] = WithBucket(@, arr, pkey, A.now)]

ReplacedAt(A, id) == IF id \in DOMAIN A.replacedAt THEN A.replacedAt[id] ELSE 0

\* _findIndexByParam once the bucket is ensured: bucket.get(pval) when the
\* bucket has it, else the linear search, whose hit is added to the bucket
findInBucket(A1, arr, pkey, pval, idx) ==
  IF pval \in DOMAIN A1.indexes[arr.id][pkey]
  THEN [A |-> [A1 EXCEPT !.staleHit =
                 @ \/ A1.indexes[arr.id][pkey][pval].at < ReplacedAt(A1, arr.id)],
        idx |-> A1.indexes[arr.id][pkey][pval].idx]
  ELSE [A |-> IF idx = -1 THEN A1
              ELSE [A1 EXCEPT !.indexes[arr.id][pkey] =
                      MapSet(@, pval, [idx |-> idx, at |-> A1.now])],
        idx |-> idx]

\* _findIndexByParam: the index found (-1 for none) and the adapter afterwards
findIndexByParam(A, arr, pkey, pval) ==
  IF ~A.indexEnabled
  THEN [A |-> A, idx |-> linearFindIndex(arr, pkey, pval)]
  ELSE findInBucket(ensureIndex(A, arr, pkey), arr, pkey, pval,
                    linearFindIndex(arr, pkey, pval))

indexUpsert(A, id, pkey, pval, idx) ==
  IF ~A.indexEnabled \/ id \notin DOMAIN A.indexes THEN A
  ELSE LET bucket == IF pkey \in DOMAIN A.indexes[id]
                     THEN A.indexes[id][pkey] ELSE <<>>
       IN [A EXCEPT !.indexes[id] =
             MapSet(@, pkey, MapSet(bucket, pval, [idx |-> idx, at |-> A.now]))]

indexDeleteValue(A, id, pkey, pval) ==
  IF ~A.indexEnabled \/ id \notin DOMAIN A.indexes THEN A
  ELSE IF pkey \notin DOMAIN A.indexes[id] THEN A
  ELSE [A EXCEPT !.indexes[id][pkey] = MapDel(@, pval)]

indexInvalidateArray(A, id) ==
  IF ~A.indexEnabled THEN A
  ELSE [A EXCEPT !.indexes = MapDel(@, id),
                 !.indexDirty = MapSet(@, id, TRUE)]

\* the loop of get(): the value read, the cursor that reached it, whether
\* get threw, and the adapter afterwards
RECURSIVE getLoop(_, _, _, _)
getLoop(A, segs, i, loc) ==
  LET cur == ReadAt(A.root, loc)
      absent == [A |-> A, res |-> Undef, loc |-> loc, threw |-> FALSE]
  IN IF i > Len(segs)
     THEN [A |-> A, res |-> cur, loc |-> loc, threw |-> FALSE]
     ELSE IF isNullish(cur) THEN absent
     ELSE LET s == segs[i]
          IN CASE s.kind = "Key" ->
                    getLoop(A, segs, i + 1, Append(loc, KeyStep(s.key)))
               [] s.kind = "Index" ->
                    IF isArray(cur)
                    THEN getLoop(A, segs, i + 1,
                                 Append(loc, IdxStep(IndexNum(s.index))))
                    ELSE absent
               [] s.kind = "Param" ->
                    IF ~isArray(cur) THEN [absent EXCEPT !.threw = TRUE]
                    ELSE LET f == findIndexByParam(A, cur, s.pkey,
                                                   PvalValue(s.pval))
                         IN IF f.idx = -1 THEN [absent EXCEPT !.A = f.A]
                            ELSE getLoop(f.A, segs, i + 1,
                                         Append(loc, IdxStep(f.idx)))
               [] OTHER -> [absent EXCEPT !.threw = TRUE]

get(A, segs) == getLoop(A, segs, 1, <<>>)

\* what a mutating call returns: the adapter afterwards and whether the call
\* returned normally
Thrown(A) == [A |-> A, ok |-> FALSE]

Done(A) == [A |-> A, ok |-> TRUE]

\* the walk of set() to the parent of the leaf, from segment i: the cursor
\* reached, or ok = FALSE when set threw
RECURSIVE setWalk(_, _, _, _)
setWalk(A, segs, i, loc) ==
  IF i >= Len(segs) THEN [A |-> A, loc |-> loc, ok |-> TRUE]
  ELSE
  LET s == segs[i]
      cur == ReadAt(A.root, loc)
      fail == [A |-> A, loc |-> loc, ok |-> FALSE]
      makeArray == segs[i + 1].kind \in {"Index", "Param"}
      made == IF makeArray THEN Arr(A.nextId, <<>>) ELSE Obj(<<>>)
      Created(l) == [A EXCEPT !.root = WriteAt(@, l, made),
                              !.nextId = IF makeArray THEN @ + 1 ELSE @]
  IN CASE s.kind = "Key" ->
            LET l == Append(loc, KeyStep(s.key))
                next == Member(cur, KeyStep(s.key))
            IN IF isNullish(next) /\ A.autoCreate
               THEN \* cur[key] = next throws on null and, the module being
                    \* strict code, on a primitive
                    IF isNullish(cur) \/ cur.t = "value" THEN fail
                    ELSE setWalk(Created(l), segs, i + 1, l)
               ELSE IF isNullish(next) THEN fail
               ELSE setWalk(A, segs, i + 1, l)
       [] s.kind = "Index" ->
            IF ~isArray(cur) THEN fail
            ELSE LET l == Append(loc, IdxStep(IndexNum(s.index)))
                     el == Member(cur, IdxStep(IndexNum(s.index)))
                 IN IF isNullish(el) /\ A.autoCreate
                    THEN setWalk(Created(l), segs, i + 1, l)
                    ELSE IF isNullish(el) THEN fail
                    ELSE setWalk(A, segs, i + 1, l)
       [] s.kind = "Param" ->
            IF ~isArray(cur) THEN fail
            ELSE LET pval == PvalValue(s.pval)
                     f == findIndexByParam(A, cur, s.pkey, pval)
                     idx == Len(cur.a)
                     l == Append(loc, IdxStep(idx))
                     \* arr.push({ [pkey]: pval }); the eager branch writes
                     \* the same bucket entry as _indexUpsert
                     pushed == [f.A EXCEPT
                                  !.root = WriteAt(@, l, Obj(s.pkey :> pval))]
                 IN IF f.idx # -1
                    THEN \* cur = arr[idx], which is not checked for null
                         setWalk(f.A, segs, i + 1, Append(loc, IdxStep(f.idx)))
                    ELSE IF ~A.autoCreate THEN [fail EXCEPT !.A = f.A]
                    ELSE setWalk(indexUpsert(pushed, cur.id, s.pkey, pval, idx),
                                 segs, i + 1, l)
       [] OTHER -> fail

\* a mutant of the Index leaf that leaves the indexes of the array alone
setIndexLeaf_KeepsIndex(A, loc, i, value) ==
  Done([A EXCEPT !.root = WriteAt(@, Append(loc, IdxStep(i)), value),
                 !.replacedAt = MapSet(@, ReadAt(A.root, loc).id, A.now)])

\* the Index leaf of set(): arr[i] = value, and the array's indexes are
\* marked dirty
setIndexLeaf(A, loc, i, value) ==
  LET arr == ReadAt(A.root, loc)
  IN Done([A EXCEPT !.root = WriteAt(@, Append(loc, IdxStep(i)), value),
                    !.indexDirty = IF A.indexEnabled
                                   THEN MapSet(@, arr.id, TRUE) ELSE @,
                    !.replacedAt = MapSet(@, arr.id, A.now)])

\* the Param leaf of set() once the element is found or pushed at idx:
\* the element is emptied, value's fields are assigned, el[pkey] = pval
setParamElement(A1, arrId, l, idx, pkey, pval, value) ==
  IF ~isPlainObject(ReadAt(A1.root, l)) THEN Thrown(A1)
  ELSE Done(indexUpsert([A1 EXCEPT !.root =
                           WriteAt(@, l, Obj(MapSet(value.f, pkey, pval)))],
                        arrId, pkey, pval, idx))

\* the Param leaf of set() after the lookup f
setParamFound(f, arr, loc, pkey, pval, value, autoCreate) ==
  IF f.idx # -1
  THEN setParamElement(f.A, arr.id, Append(loc, IdxStep(f.idx)), f.idx, pkey,
                       pval, value)
  ELSE IF ~autoCreate THEN Thrown(f.A)
  ELSE \* arr.push({ [pkey]: pval })
       setParamElement([f.A EXCEPT !.root =
                          WriteAt(@, Append(loc, IdxStep(Len(arr.a))),
                                  Obj(pkey :> pval))],
                       arr.id, Append(loc, IdxStep(Len(arr.a))), Len(arr.a),
                       pkey, pval, value)

\* the Param leaf of set()
setParamLeaf(A, loc, leaf, value) ==
  IF ~isPlainObject(value) THEN Thrown(A)
  ELSE setParamFound(findIndexByParam(A, ReadAt(A.root, loc), leaf.pkey,
                                      PvalValue(leaf.pval)),
                     ReadAt(A.root, loc), loc, leaf.pkey, PvalValue(leaf.pval),
                     value, A.autoCreate)

\* the leaf of set(), the walk w having reached cur
setLeaf(w, cur, leaf, value) ==
  IF ~w.ok THEN Thrown(w.A)
  ELSE CASE leaf.kind = "Key" ->
              \* on null with autoCreate, cur = {} is an object nothing
              \* refers to, and the value is assigned to it
              IF isNullish(cur)
              THEN IF w.A.autoCreate THEN Done(w.A) ELSE Thrown(w.A)
              ELSE IF cur.t = "value" THEN Thrown(w.A)
              ELSE Done([w.A EXCEPT !.root =
                           WriteAt(@, Append(w.loc, KeyStep(leaf.key)), value)])
         [] leaf.kind = "Index" ->
              IF ~isArray(cur) THEN Thrown(w.A)
              ELSE setIndexLeaf(w.A, w.loc, IndexNum(leaf.index), value)
         [] leaf.kind = "Param" ->
              IF ~isArray(cur) THEN Thrown(w.A)
              ELSE setParamLeaf(w.A, w.loc, leaf, value)
         [] OTHER -> Thrown(w.A)

\* the walk of set() and then its leaf
setFrom(w, segs, value) ==
  setLeaf(w, ReadAt(w.A.root, w.loc), segs[Len(segs)], value)

set(A, segs, value) ==
  IF segs = <<>> THEN Done(clearAllIndexes([A EXCEPT !.root = value]))
  ELSE setFrom(setWalk(A, segs, 1, <<>>), segs, value)

\* the walk of delete() to the parent of the leaf; go = FALSE when delete
\* returns early, ok = FALSE when it throws
RECURSIVE deleteWalk(_, _, _, _)
deleteWalk(A, segs, i, loc) ==
  LET cur == ReadAt(A.root, loc)
      stop == [A |-> A, loc |-> loc, go |-> FALSE, ok |-> TRUE]
  IN IF i >= Len(segs) THEN [stop EXCEPT !.go = TRUE]
     ELSE IF isNullish(cur) THEN stop
     ELSE LET s == segs[i]
          IN CASE s.kind = "Key" ->
                    deleteWalk(A, segs, i + 1, Append(loc, KeyStep(s.key)))
               [] s.kind = "Index" ->
                    IF ~isArray(cur) THEN stop
                    ELSE deleteWalk(A, segs, i + 1,
                                    Append(loc, IdxStep(IndexNum(s.index))))
               [] s.kind = "Param" ->
                    IF ~isArray(cur) THEN stop
                    ELSE LET f == findIndexByParam(A, cur, s.pkey,
                                                   PvalValue(s.pval))
                         IN IF f.idx = -1 THEN [stop EXCEPT !.A = f.A]
                            ELSE deleteWalk(f.A, segs, i + 1,
                                            Append(loc, IdxStep(f.idx)))
               [] OTHER -> [stop EXCEPT !.ok = FALSE]

\* delete arr[i] (a hole) or arr.splice(i, 1), by the arrayDelete option
dropElement(A, loc, arr, i) ==
  IF A.arrayDelete = "splice"
  THEN IF i < Len(arr.a)
       THEN [A EXCEPT !.root = WriteAt(@, loc, Arr(arr.id, SpliceOut(arr.a, i)))]
       ELSE A
  ELSE IF i < Len(arr.a)
       THEN [A EXCEPT !.root = WriteAt(@, Append(loc, IdxStep(i)), Undef)]
       ELSE A

\* the Param leaf of delete() after the lookup f
deleteParamFound(f, loc, cur, pkey, pval) ==
  IF f.idx = -1 THEN Done(f.A)
  ELSE IF f.A.arrayDelete = "splice"
  THEN Done(indexInvalidateArray(dropElement(f.A, loc, cur, f.idx), cur.id))
  ELSE Done(indexDeleteValue(dropElement(f.A, loc, cur, f.idx), cur.id, pkey,
                             pval))

\* the leaf of delete(), the walk w having reached cur
deleteLeaf(w, cur, leaf) ==
  IF ~w.ok THEN Thrown(w.A)
  ELSE IF ~w.go \/ isNullish(cur) THEN Done(w.A)
  ELSE CASE leaf.kind = "Key" ->
              IF isPlainObject(cur)
              THEN Done([w.A EXCEPT !.root =
                           WriteAt(@, w.loc, Obj(MapDel(cur.f, leaf.key)))])
              ELSE Done(w.A)
         [] leaf.kind = "Index" ->
              IF ~isArray(cur) THEN Done(w.A)
              ELSE IF /\ w.A.arrayDelete = "splice"
                      /\ IndexNum(leaf.index) < Len(cur.a)
              THEN Done(indexInvalidateArray(
                          dropElement(w.A, w.loc, cur, IndexNum(leaf.index)),
                          cur.id))
              ELSE Done(dropElement(w.A, w.loc, cur, IndexNum(leaf.index)))
         [] leaf.kind = "Param" ->
              IF ~isArray(cur) THEN Done(w.A)
              ELSE deleteParamFound(findIndexByParam(w.A, cur, leaf.pkey,
                                                     PvalValue(leaf.pval)),
                                    w.loc, cur, leaf.pkey, PvalValue(leaf.pval))
         [] OTHER -> Thrown(w.A)

\* the walk of delete() and then its leaf
deleteFrom(w, segs) == deleteLeaf(w, ReadAt(w.A.root, w.loc), segs[Len(segs)])

delete(A, segs) ==
  IF segs = <<>> THEN Done(clearAllIndexes([A EXCEPT !.root = Obj(<<>>)]))
  ELSE deleteFrom(deleteWalk(A, segs, 1, <<>>), segs)

\* merge() after its get() returned g
mergeInto(g, segs, value) ==
  IF g.threw THEN Thrown(g.A)
  ELSE IF isPlainObject(g.res) /\ isPlainObject(value)
  THEN \* Object.assign(target, value)
       Done([g.A EXCEPT !.root = WriteAt(@, g.loc, Obj(value.f @@ g.res.f))])
  ELSE set(g.A, segs, value)

merge(A, segs, value) == mergeInto(get(A, segs), segs, value)

\* the loop of indexOf(): the number returned and the adapter afterwards
RECURSIVE indexOfLoop(_, _, _, _)
indexOfLoop(A, segs, i, loc) ==
  LET cur == ReadAt(A.root, loc)
      none == [A |-> A, res |-> -1]
      last == i = Len(segs)
  IN IF i > Len(segs) THEN none
     ELSE LET s == segs[i]
          IN CASE s.kind = "Key" ->
                    IF isNullish(Member(cur, KeyStep(s.key))) THEN none
                    ELSE indexOfLoop(A, segs, i + 1, Append(loc, KeyStep(s.key)))
               [] s.kind = "Index" ->
                    IF ~isArray(cur) THEN none
                    ELSE IF last THEN [none EXCEPT !.res = IndexNum(s.index)]
                    ELSE IF isNullish(Member(cur, IdxStep(IndexNum(s.index))))
                    THEN none
                    ELSE indexOfLoop(A, segs, i + 1,
                                     Append(loc, IdxStep(IndexNum(s.index))))
               [] s.kind = "Param" ->
                    IF ~isArray(cur) THEN none
                    ELSE LET f == findIndexByParam(A, cur, s.pkey,
                                                   PvalValue(s.pval))
                         IN IF f.idx = -1 THEN [none EXCEPT !.A = f.A]
                            ELSE IF last THEN [A |-> f.A, res |-> f.idx]
                            ELSE IF isNullish(Member(cur, IdxStep(f.idx)))
                            THEN [none EXCEPT !.A = f.A]
                            ELSE indexOfLoop(f.A, segs, i + 1,
                                             Append(loc, IdxStep(f.idx)))
               [] OTHER -> none

indexOf(A, segs) == indexOfLoop(A, segs, 1, <<>>)

\* new DefaultDataAdapter(initial, opts), once with indexEnabled: true and
\* once with indexEnabled: false
NewAdapters(initial, arrayDelete, indexStrategy) ==
  [on |-> NewAdapter(initial, TRUE, arrayDelete, indexStrategy, TRUE),
   off |-> NewAdapter(initial, FALSE, arrayDelete, indexStrategy, TRUE)]

\* ------------------------------------------------------------------------
\* RaphApp: state
\* ------------------------------------------------------------------------
PRIORITY_SCALE == 1048576

VARIABLES
  graph,            \* _graph (DepGraph)
  weight,           \* RaphNode._weight of every node
  dirtyMask,        \* RaphNode.__dirtyPhasesMask of every node
  phasesArray,      \* _phasesArray
  phaseBits,        \* _phaseBits
  nodeRouter,       \* _nodeRouter
  phaseRouter,      \* _phaseRouter
  dirty,            \* _dirty : phase name -> PhaseDirty
  schedulerType,    \* _schedulerType
  schedulerPending, \* _schedulerPending
  throttleTimer,    \* __throttleTimer !== null
  tasks,            \* callbacks handed to queueMicrotask / requestAnimationFrame
  loop,             \* __isLoopActive, __animationFrameId !== null
  stack,            \* call stack: notify() and run() frames
  ops,              \* calls made by user code so far
  evSeq,            \* event objects created so far
  runSeq,           \* run() calls so far
  execLog,          \* history: the executor invocations, in order
  ghost,            \* history: per (phase, node) bookkeeping of dirty() calls
  hist,             \* history: counters and sets of run() calls (see HistInit)
  router,           \* a RaphRouter driven directly (trie, version, caches)
  adapters,         \* two DefaultDataAdapters given the same calls, one with
                    \* indexEnabled and one without
  heap,             \* a MinHeap driven directly (_a, _size)
  obs               \* history: the calls made on `router` and on `graph`

vars ==
  << graph, weight, dirtyMask, phasesArray, phaseBits, nodeRouter,
     phaseRouter, dirty, schedulerType, schedulerPending, throttleTimer,
     tasks, loop, stack, ops, evSeq, runSeq, execLog, ghost, hist, router,
     adapters, heap, obs >>

\* the state as one record, so that the methods are operators on it
Cur ==
  [graph |-> graph, weight |-> weight, dirtyMask |-> dirtyMask,
   phasesArray |-> phasesArray, phaseBits |-> phaseBits,
   nodeRouter |-> nodeRouter, phaseRouter |-> phaseRouter, dirty |-> dirty,
   schedulerType |-> schedulerType, schedulerPending |-> schedulerPending,
   throttleTimer |-> throttleTimer, tasks |-> tasks, loop |-> loop,
   stack |-> stack,
   ops |-> ops, evSeq |-> evSeq, runSeq |-> runSeq, execLog |-> execLog,
   ghost |-> ghost, hist |-> hist, router |-> router, adapters |-> adapters,
   heap |-> heap, obs |-> obs]

Install(S) ==
  /\ graph' = S.graph
  /\ weight' = S.weight
  /\ dirtyMask' = S.dirtyMask
  /\ phasesArray' = S.phasesArray
  /\ phaseBits' = S.phaseBits
  /\ nodeRouter' = S.nodeRouter
  /\ phaseRouter' = S.phaseRouter
  /\ dirty' = S.dirty
  /\ schedulerType' = S.schedulerType
  /\ schedulerPending' = S.schedulerPending
  /\ throttleTimer' = S.throttleTimer
  /\ tasks' = S.tasks
  /\ loop' = S.loop
  /\ stack' = S.stack
  /\ ops' = S.ops
  /\ evSeq' = S.evSeq
  /\ runSeq' = S.runSeq
  /\ execLog' = S.execLog
  /\ ghost' = S.ghost
  /\ hist' = S.hist
  /\ router' = S.router
  /\ adapters' = S.adapters
  /\ heap' = S.heap
  /\ obs' = S.obs

\* ------------------------------------------------------------------------
\* 32-bit masks (JS bitwise operators work on int32)
\* ------------------------------------------------------------------------
\* a mask is the int32 value the JS engine holds; bit 31 is the sign bit
MinInt32 == (-2147483647) - 1

\* bits 0..30 of m, as a non-negative number
Low31(m) == IF m >= 0 THEN m ELSE (m + 2147483647) + 1

\* 1 << i (the shift count is taken modulo 32)
Shl1(i) == IF i % 32 = 31 THEN MinInt32 ELSE 2 ^ (i % 32)

\* (m & bit) !== 0, for a one-bit value
TestBit(m, bit) == IF bit < 0 THEN m < 0 ELSE (Low31(m) \div bit) % 2 = 1

\* m | bit
OrBit(m, bit) ==
  IF TestBit(m, bit) THEN m
  ELSE IF bit < 0 THEN (m - 2147483647) - 1
  ELSE m + bit

\* m & ~bit
ClearBit(m, bit) ==
  IF ~TestBit(m, bit) THEN m
  ELSE IF bit < 0 THEN Low31(m)
  ELSE m - bit

\* ------------------------------------------------------------------------
\* Phases
\* ------------------------------------------------------------------------
PhaseNames == {"P1", "P2"}

\* the last phase of the array with that name
RECURSIVE phaseLookup(_, _, _)
phaseLookup(arr, name, i) ==
  IF i = 0 THEN [found |-> FALSE, idx |-> 0]
  ELSE IF arr[i].name = name THEN [found |-> TRUE, idx |-> i]
  ELSE phaseLookup(arr, name, i - 1)

\* _phasesMap.get(name).  reinitPhases() fills _phasesMap and _phaseBits with
\* the same names, and addPhase() touches neither, so a name is in the map
\* exactly when it has a bit; the phase is the last of that name in the array
\* (addPhase() is only given names the array does not hold).
getPhase(S, name) ==
  IF name \notin DOMAIN S.phaseBits THEN [found |-> FALSE, idx |-> 0]
  ELSE phaseLookup(S.phasesArray, name, Len(S.phasesArray))

\* addPhase(phase): the array alone
addPhase(S, phase) == [S EXCEPT !.phasesArray = Append(@, phase)]

\* _phaseBits after reinitPhases: later entries of the same name overwrite
RECURSIVE phaseBitsOf(_, _, _)
phaseBitsOf(arr, i, acc) ==
  IF i > Len(arr) THEN acc
  ELSE phaseBitsOf(arr, i + 1, MapSet(acc, arr[i].name, Shl1(i - 1)))

RECURSIVE addRoutes(_, _, _)
addRoutes(tr, routes, name) ==
  IF routes = <<>> THEN tr
  ELSE addRoutes(routerAdd(tr, Head(routes), name), Tail(routes), name)

RECURSIVE phaseRouterOf(_, _, _)
phaseRouterOf(arr, i, tr) ==
  IF i > Len(arr) THEN tr
  ELSE phaseRouterOf(arr, i + 1, addRoutes(tr, arr[i].routes, arr[i].name))

\* definePhases(phases) = assignment + reinitPhases()
definePhases(S, phases) ==
  [S EXCEPT !.phasesArray = phases,
            !.phaseBits = phaseBitsOf(phases, 1, <<>>),
            !.phaseRouter = phaseRouterOf(phases, 1, EmptyRouter)]

\* clearPhases() = empty array + reinitPhases()
clearPhases(S) == definePhases(S, <<>>)

\* ------------------------------------------------------------------------
\* Dirty queues
\* ------------------------------------------------------------------------
EmptyQueue == [buckets |-> <<>>, heap |-> <<>>, inHeap |-> <<>>, events |-> <<>>]

\* this._dirty.get(phase) as _getPhaseDirty would return it
QueueOf(S, ph) == IF ph \in DOMAIN S.dirty THEN S.dirty[ph] ELSE EmptyQueue

BucketOf(q, idx) == IF idx \in DOMAIN q.buckets THEN q.buckets[idx] ELSE <<>>

\* q.events.get(node.id) ?? undefined ; <<>> stands for undefined
EventsOf(q, n) == IF n \in DOMAIN q.events THEN q.events[n] ELSE <<>>

priority(S, n) == getDepth(S.graph, n) * PRIORITY_SCALE - S.weight[n]

\* ------------------------------------------------------------------------
\* Call stack
\* ------------------------------------------------------------------------
NoFrame ==
  [k |-> "none", run |-> 0, pi |-> 0, pc |-> "", bucketIdx |-> 0,
   arr |-> <<>>, i |-> 0, det |-> FALSE, todo |-> <<>>, path |-> <<>>]

RunFrame(id) == [NoFrame EXCEPT !.k = "run", !.run = id, !.pi = 1, !.pc = "phase"]

NotifyFrame(todo, path) ==
  [NoFrame EXCEPT !.k = "notify", !.todo = todo, !.path = path]

Top(S) == IF S.stack = <<>> THEN NoFrame ELSE S.stack[Len(S.stack)]

Pop(S) == [S EXCEPT !.stack = SubSeq(@, 1, Len(@) - 1)]

SetTop(S, f) == [S EXCEPT !.stack[Len(S.stack)] = f]

RunIds(S) == {S.stack[j].run : j \in {x \in 1..Len(S.stack) : S.stack[x].k = "run"}}

Nest(S) == Cardinality({x \in 1..Len(S.stack) : S.stack[x].k = "run"})

\* a run() that walked _phasesArray from its last entry to its first
FramePhase_Reversed(S, f) == S.phasesArray[Len(S.phasesArray) + 1 - f.pi]

\* the phase a run frame is working on: `for (const phase of _phasesArray)`
FramePhase(S, f) == S.phasesArray[f.pi]

\* a frame whose local `arr` is the array currently stored under its bucket
FrameLive(S, f, ph, idx) ==
  /\ f.k = "run" /\ f.pc \in {"iter", "exec"} /\ ~f.det
  /\ f.pi <= Len(S.phasesArray)
  /\ FramePhase(S, f).name = ph /\ FramePhase(S, f).kind = "each"
  /\ f.bucketIdx = idx

\* the array a run frame iterates
FrameArr(S, f) ==
  IF f.det THEN f.arr ELSE BucketOf(QueueOf(S, FramePhase(S, f).name), f.bucketIdx)

\* ------------------------------------------------------------------------
\* History bookkeeping
\* ------------------------------------------------------------------------
\* per (phase, node), since the node last ran in the phase:
\*   sent    the events passed to dirty()
\*   marks   the number of dirty() calls
\*   owed    whether the call that queued it had invalidate = true
\*   self    whether one of these calls came from the executor that was
\*           running for this very node and phase
\*   runs    the run() calls that were on the stack when it was queued
\*   stamp   the rank of the call that queued it among all queueing calls
\*   calls   the number of dirty() calls made outside run() since the last
\*           run() began
\*   asked   whether one of these calls had invalidate = true
GhostInit ==
  [sent |-> <<>>, runs |-> {}, marks |-> 0, owed |-> FALSE, self |-> FALSE,
   stamp |-> 0, calls |-> 0, asked |-> FALSE]

\*   calls    the number of executor calls (each(ctx) or all(ctxs)) made
\*   noisy    the run() calls during which user code made a call
\*   manual   the run() calls made by user code
\*   stamps   the number of dirty() calls that queued a node
\*   bursts   the number of synchronous stacks in which user code mutated
\*   inBurst  whether the current synchronous stack is one of them
\*   req      whether invalidate() was called since the last run() began
\*   waited   the number of invalidate() calls made while the throttle timer
\*            was armed
HistInit ==
  [calls |-> 0, noisy |-> {}, manual |-> {}, stamps |-> 0, bursts |-> 0,
   inBurst |-> FALSE, req |-> FALSE, waited |-> 0]

\* the executor call in progress in the innermost run(): its number
RunningCall(S) ==
  LET R == {x \in 1..Len(S.stack) : S.stack[x].k = "run"}
  IN IF R = {} THEN 0
     ELSE LET r == S.stack[CHOOSE x \in R : \A y \in R : y <= x].run
              I == {i \in 1..Len(S.execLog) : S.execLog[i].run = r}
          IN IF I = {} THEN 0
             ELSE S.execLog[CHOOSE i \in I : \A k \in I : k <= i].call

\* history of the calls made directly on `router` and on `graph`:
\*   n      the number of calls
\*   muts   the mutating calls, in order
\*   last   the last call, with what it returned
\*   gone   the payloads passed to removePayload() and not added since
NoCall == [op |-> "none"]

ObsInit == [n |-> 0, muts |-> <<>>, last |-> NoCall, gone |-> {}]

\* a dirty() call that passed the phase lookup and the node filter
GhostCall(S, ph, n, inv, ev, accepted) ==
  LET outside == \A j \in 1..Len(S.stack) : S.stack[j].k # "run"
      cur == RunningCall(S)
      own == /\ cur # 0
             /\ \E j \in 1..Len(S.execLog) :
                  /\ S.execLog[j].call = cur
                  /\ S.execLog[j].phase = ph
                  /\ S.execLog[j].node = n
  IN [S EXCEPT
        !.hist.stamps = IF accepted THEN @ + 1 ELSE @,
        !.ghost[<<ph, n>>] =
          [@ EXCEPT !.sent = IF ev = 0 THEN @ ELSE Append(@, ev),
                    !.marks = @ + 1,
                    !.owed = IF accepted THEN inv ELSE @,
                    !.asked = @ \/ inv,
                    !.self = @ \/ own,
                    !.runs = IF accepted THEN RunIds(S) ELSE @,
                    !.stamp = IF accepted THEN S.hist.stamps + 1 ELSE @,
                    !.calls = IF outside THEN @ + 1 ELSE @]]

\* the context { phase, node, events } handed to an executor by run() number
\* r, with the bookkeeping at that moment
Ctx(S, r, kind, q, ph, n, idx, mask) ==
  [call |-> S.hist.calls + 1, run |-> r, kind |-> kind, phase |-> ph,
   node |-> n, events |-> EventsOf(q, n), idx |-> idx,
   bit |-> IF ph \in DOMAIN S.phaseBits /\ S.phaseBits[ph] # 0
           THEN TestBit(mask, S.phaseBits[ph]) ELSE FALSE,
   sent |-> S.ghost[<<ph, n>>].sent, runs |-> S.ghost[<<ph, n>>].runs,
   marks |-> S.ghost[<<ph, n>>].marks, calls |-> S.ghost[<<ph, n>>].calls,
   stamp |-> S.ghost[<<ph, n>>].stamp, owed |-> S.ghost[<<ph, n>>].owed]

\* ------------------------------------------------------------------------
\* run()
\* ------------------------------------------------------------------------
\* the `all` branch: contexts of the buckets named by q.inHeap, in its order;
\* mask is the dirty mask of every node once its bit has been cleared
RECURSIVE allCtxs(_, _, _, _, _, _)
allCtxs(S, r, q, ph, idxs, mask) ==
  IF idxs = <<>> THEN <<>>
  ELSE LET arr == BucketOf(q, Head(idxs))
       IN [j \in 1..Len(arr) |->
             Ctx(S, r, "all", q, ph, arr[j], Head(idxs), mask[arr[j]])]
          \o allCtxs(S, r, q, ph, Tail(idxs), mask)

runAll(S, f, phase) ==
  LET ph == phase.name
      q == S.dirty[ph]
      bit == IF ph \in DOMAIN S.phaseBits THEN S.phaseBits[ph] ELSE 0
      hit == UNION {Range(BucketOf(q, idx)) : idx \in Range(q.inHeap)}
      mask == [n \in DOMAIN S.dirtyMask |->
                 IF n \in hit /\ bit # 0 THEN ClearBit(S.dirtyMask[n], bit)
                 ELSE S.dirtyMask[n]]
      ctxs == allCtxs(S, f.run, q, ph, q.inHeap, mask)
      gone == {idx \in Range(q.inHeap) : BucketOf(q, idx) # <<>>}
      q1 == [buckets |-> [idx \in (DOMAIN q.buckets) \ gone |-> q.buckets[idx]],
             heap |-> <<>>, inHeap |-> <<>>, events |-> <<>>]
  IN [S EXCEPT
        !.dirtyMask = mask,
        !.dirty[ph] = q1,
        !.ghost = [key \in DOMAIN @ |->
                     IF key[1] = ph /\ key[2] \in hit THEN GhostInit ELSE @[key]],
        !.execLog = @ \o ctxs,
        !.hist.calls = @ + 1,
        !.stack[Len(S.stack)] = [f EXCEPT !.pc = "exec"]]

\* a drain that leaves the bucket it walked in the map
deleteBucket_Keeps(S, me, ph, idx) == S

\* q.buckets.delete(bucketIdx) by frame number me: other frames that still
\* hold the deleted array keep it as their own copy
deleteBucket(S, me, ph, idx) ==
  LET q == S.dirty[ph]
      old == BucketOf(q, idx)
  IN [S EXCEPT
        !.dirty[ph].buckets = MapDel(@, idx),
        !.stack = [j \in 1..Len(@) |->
                     IF j # me /\ FrameLive(S, @[j], ph, idx)
                     THEN [@[j] EXCEPT !.det = TRUE, !.arr = old]
                     ELSE @[j]]]

\* the `each` branch at `const node = arr[i]`: clear the bit, call each(ctx)
runEachCall(S, f, phase) ==
  LET ph == phase.name
      q == S.dirty[ph]
      bit == IF ph \in DOMAIN S.phaseBits THEN S.phaseBits[ph] ELSE 0
      n == FrameArr(S, f)[f.i]
      mask == IF bit # 0 THEN ClearBit(S.dirtyMask[n], bit) ELSE S.dirtyMask[n]
  IN [S EXCEPT
        !.dirtyMask[n] = mask,
        !.ghost[<<ph, n>>] = GhostInit,
        !.execLog = Append(@, Ctx(S, f.run, "each", q, ph, n, f.bucketIdx, mask)),
        !.hist.calls = @ + 1,
        !.stack[Len(S.stack)] = [f EXCEPT !.pc = "exec"]]

\* run() from the frame on top of the stack up to the next executor call
\* (the frame then waits in pc = "exec") or to its return (the frame is popped)
RECURSIVE Advance(_)
Advance(S) ==
  LET f == Top(S)
      me == Len(S.stack)
  IN IF f.pi > Len(S.phasesArray) THEN Pop(S)
     ELSE
     LET phase == FramePhase(S, f)
         ph == phase.name
         q == QueueOf(S, ph)
     IN CASE f.pc = "phase" ->
               IF ph \notin DOMAIN S.dirty \/ q.inHeap = <<>>
               THEN Advance(SetTop(S, [f EXCEPT !.pi = @ + 1]))
               ELSE IF phase.kind = "all" THEN runAll(S, f, phase)
               ELSE Advance(SetTop(S, [f EXCEPT !.pc = "pop"]))
          [] f.pc = "pop" ->
               IF q.heap = <<>>
               THEN Advance([SetTop(S, [f EXCEPT !.pi = @ + 1, !.pc = "phase"])
                               EXCEPT !.dirty[ph].events = <<>>])
               ELSE LET bucketIdx == q.heap[1]
                        S1 == [S EXCEPT !.dirty[ph].heap = heapPop(@),
                                        !.dirty[ph].inHeap = SeqDel(@, bucketIdx)]
                    IN IF BucketOf(q, bucketIdx) = <<>> THEN Advance(S1)
                       ELSE Advance(SetTop(S1,
                              [f EXCEPT !.pc = "iter", !.bucketIdx = bucketIdx,
                                        !.i = 1, !.det = FALSE, !.arr = <<>>]))
          [] f.pc = "iter" ->
               IF f.i > Len(FrameArr(S, f))
               THEN Advance(SetTop(deleteBucket(S, me, ph, f.bucketIdx),
                                   [f EXCEPT !.pc = "pop"]))
               ELSE runEachCall(S, f, phase)
          [] OTHER -> S

\* the executor on top of the stack returns
execReturn(S) ==
  LET f == Top(S)
  IN IF FramePhase(S, f).kind = "all"
     THEN Advance(SetTop(S, [f EXCEPT !.pi = @ + 1, !.pc = "phase"]))
     ELSE Advance(SetTop(S, [f EXCEPT !.i = @ + 1, !.pc = "iter"]))

run(S) ==
  Advance([S EXCEPT !.runSeq = @ + 1,
                    !.stack = Append(@, RunFrame(S.runSeq + 1)),
                    !.hist.req = FALSE,
                    !.ghost = [key \in DOMAIN @ |-> [@[key] EXCEPT !.calls = 0]]])

\* ------------------------------------------------------------------------
\* invalidate() and the throttle.  zero = (delay === 0): whether the slot of
\* _minUpdateInterval since __lastRunAt has already passed is decided by the
\* clock, which is outside the model.
\* ------------------------------------------------------------------------
\* () => { this._schedulerPending = false; this.run() }
runCallback(S) == run([S EXCEPT !.schedulerPending = FALSE])

scheduleRun(S) ==
  LET S1 == [S EXCEPT !.schedulerPending = TRUE]
  IN IF S.schedulerType = "sync" THEN runCallback(S1)
     ELSE [S1 EXCEPT !.tasks = Append(@, "run")]

scheduleRunThrottled(S, zero) ==
  IF S.throttleTimer \/ S.schedulerPending THEN S
  ELSE IF zero THEN scheduleRun(S)
  ELSE [S EXCEPT !.throttleTimer = TRUE]

\* () => { this._schedulerPending = false; this._scheduleRunThrottled() }
invalidateCallback(S, zero) ==
  scheduleRunThrottled([S EXCEPT !.schedulerPending = FALSE], zero)

\* an invalidate() call, counted
Requested(S) ==
  [S EXCEPT !.hist.req = TRUE,
            !.hist.waited = IF S.throttleTimer THEN @ + 1 ELSE @]

\* an invalidate() that queued run() on every call
invalidate_Eager(S, zero) == [S EXCEPT !.tasks = Append(@, "run")]

invalidate(S, zero) ==
  IF S.schedulerPending THEN Requested(S)
  ELSE LET S1 == [Requested(S) EXCEPT !.schedulerPending = TRUE]
       IN IF S.schedulerType = "sync" THEN invalidateCallback(S1, zero)
          ELSE [S1 EXCEPT !.tasks = Append(@, "inv")]

\* a timer callback without the guard against a pending scheduler callback
timerCallback_NoGuard(S) == scheduleRun([S EXCEPT !.throttleTimer = FALSE])

\* the callback of the throttle timer
timerCallback(S) ==
  LET S1 == [S EXCEPT !.throttleTimer = FALSE]
  IN IF S1.schedulerPending THEN S1 ELSE scheduleRun(S1)

\* ------------------------------------------------------------------------
\* dirty() and notify()
\* ------------------------------------------------------------------------
\* ev = 0: no event was passed
dirtyCall(S, ph, n, inv, ev, zero) ==
  LET pl == getPhase(S, ph)
  IN IF ~pl.found THEN S
     ELSE IF n \notin S.phasesArray[pl.idx].nodes THEN S
     ELSE
     LET bit == IF ph \in DOMAIN S.phaseBits THEN S.phaseBits[ph] ELSE 0
     IN IF bit # 0 /\ TestBit(S.dirtyMask[n], bit)
        THEN GhostCall(S, ph, n, inv, ev, FALSE)
        ELSE
        LET idx == priority(S, n)
            q == QueueOf(S, ph)
            q1 == [buckets |-> MapSet(q.buckets, idx, Append(BucketOf(q, idx), n)),
                   inHeap |-> SeqAdd(q.inHeap, idx),
                   heap |-> IF SeqHas(q.inHeap, idx) THEN q.heap
                            ELSE heapPush(q.heap, idx),
                   events |-> IF ev = 0 THEN q.events
                              ELSE MapSet(q.events, n, Append(EventsOf(q, n), ev))]
            S1 == [GhostCall(S, ph, n, inv, ev, TRUE) EXCEPT
                     !.dirty = MapSet(@, ph, q1),
                     !.dirtyMask[n] = IF bit # 0 THEN OrBit(@, bit) ELSE @]
        IN IF inv THEN invalidate(S1, zero) ELSE S1

\* the dirty() calls notify(path) makes, in order
RECURSIVE notifyCalls(_, _, _, _, _)
notifyCalls(S, hits, matches, inv, ev) ==
  IF hits = <<>> THEN <<>>
  ELSE LET pl == getPhase(S, Head(hits))
           rest == notifyCalls(S, Tail(hits), matches, inv, ev)
       IN IF ~pl.found THEN rest
          ELSE LET phase == S.phasesArray[pl.idx]
                   expanded == IF phase.traversal = "all"
                               THEN expandByTraversal(S.graph, <<>>, "all")
                               ELSE expandByTraversal(S.graph, matches,
                                                      phase.traversal)
               IN IF phase.traversal # "all" /\ matches = <<>> THEN rest
                  ELSE [j \in 1..Len(expanded) |->
                          [ph |-> phase.name, n |-> expanded[j],
                           inv |-> inv, ev |-> ev]] \o rest

\* notify(path): the frame that will make the dirty() calls
notify(S, path, inv) ==
  IF Len(S.phasesArray) = 0 THEN S
  ELSE LET phaseHits == matchIncludingPrefix(S.phaseRouter, path)
           matches == routerMatch(S.nodeRouter, path)
           todo == notifyCalls(S, phaseHits, matches, inv, S.evSeq + 1)
       IN IF phaseHits = <<>> \/ todo = <<>> THEN S
          ELSE [S EXCEPT !.evSeq = @ + 1,
                         !.stack = Append(@, NotifyFrame(todo, path))]

\* one iteration of the loop of notify()
notifyStep(S, zero) ==
  LET f == Top(S)
      c == Head(f.todo)
      S1 == IF Len(f.todo) = 1 THEN Pop(S)
            ELSE SetTop(S, [f EXCEPT !.todo = Tail(@)])
  IN dirtyCall(S1, c.ph, c.n, c.inv, c.ev, zero)

\* ------------------------------------------------------------------------
\* The configurations explored
\* ------------------------------------------------------------------------
Paths == { << KeySeg("a"), KeySeg("x") >>, << KeySeg("b"), KeySeg("y") >> }

MaskAStar == << KeySeg("a"), WildSeg >>

MaskAX == << KeySeg("a"), KeySeg("x") >>

MaskBStar == << KeySeg("b"), WildSeg >>

MaskStar == << WildSeg >>

Phase(name, traversal, routes, kind, nodes) ==
  [name |-> name, traversal |-> traversal, routes |-> routes, kind |-> kind,
   nodes |-> nodes]

\* two `each` phases
EachTable ==
  << Phase("P1", "dirty-only", << MaskStar >>, "each", NodeIds),
     Phase("P2", "dirty-and-up", << MaskBStar >>, "each", NodeIds) >>

\* an `all` phase, then an `each` phase with a node filter
AllTable ==
  << Phase("P1", "dirty-and-down", << MaskAStar >>, "all", NodeIds),
     Phase("P2", "dirty-only", << MaskAX, MaskBStar >>, "each", {"A", "B"}) >>

PhaseTables == {EachTable, AllTable}

\* A -> B -> C
ChainGraph ==
  LET g3 == addNode(addNode(addNode(EmptyGraph, "A"), "B"), "C")
  IN addEdge(addEdge(g3, "A", "B").g, "B", "C").g

\* three roots
FlatGraph == addNode(addNode(addNode(EmptyGraph, "A"), "B"), "C")

Graphs == { [g |-> ChainGraph, w |-> [n \in NodeIds |-> 0]],
            [g |-> FlatGraph, w |-> ("A" :> 0 @@ "B" :> 0 @@ "C" :> 1)] }

\* track(A, 'a.*'), track(B, 'a.x'), track(C, 'b.*')
Tracked ==
  routerAdd(routerAdd(routerAdd(EmptyRouter, MaskAStar, "A"), MaskAX, "B"),
            MaskBStar, "C")

SchedulerTypes == {"sync", "microtask", "animationFrame"}

Blank(gw, st) ==
  [graph |-> gw.g, weight |-> gw.w, dirtyMask |-> [n \in NodeIds |-> 0],
   phasesArray |-> <<>>, phaseBits |-> <<>>, nodeRouter |-> Tracked,
   phaseRouter |-> EmptyRouter, dirty |-> <<>>, schedulerType |-> st,
   schedulerPending |-> FALSE, throttleTimer |-> FALSE, tasks |-> <<>>,
   loop |-> [active |-> FALSE, frame |-> FALSE],
   stack |-> <<>>, ops |-> 0, evSeq |-> 0, runSeq |-> 0, execLog |-> <<>>,
   ghost |-> [key \in PhaseNames \X NodeIds |-> GhostInit], hist |-> HistInit,
   router |-> NewRouter,
   adapters |-> NewAdapters(Obj(<<>>), "unset", "eager-all-keys"),
   heap |-> NewHeap, obs |-> ObsInit]

\* the variables hold the state S
InitAs(S) ==
  /\ graph = S.graph /\ weight = S.weight /\ dirtyMask = S.dirtyMask
  /\ phasesArray = S.phasesArray /\ phaseBits = S.phaseBits
  /\ nodeRouter = S.nodeRouter /\ phaseRouter = S.phaseRouter
  /\ dirty = S.dirty /\ schedulerType = S.schedulerType
  /\ schedulerPending = S.schedulerPending
  /\ throttleTimer = S.throttleTimer /\ tasks = S.tasks /\ loop = S.loop
  /\ stack = S.stack /\ ops = S.ops /\ evSeq = S.evSeq
  /\ runSeq = S.runSeq /\ execLog = S.execLog /\ ghost = S.ghost
  /\ hist = S.hist /\ router = S.router /\ adapters = S.adapters
  /\ heap = S.heap /\ obs = S.obs

InitIn(graphs, schedulers, tables) ==
  \E gw \in graphs, st \in schedulers, pt \in tables :
    InitAs(definePhases(Blank(gw, st), pt))

Init == InitIn(Graphs, SchedulerTypes, PhaseTables)

\* ------------------------------------------------------------------------
\* Actions
\* ------------------------------------------------------------------------
InExecutor == Top(Cur).k = "run" /\ Top(Cur).pc = "exec"

\* user code is running: at top level or inside an executor
UserTurn == (stack = <<>> \/ InExecutor) /\ ops < MaxOps

Step(S) == Nest(S) <= MaxNest /\ Install(S)

\* a call by user code, counted
Used(S) ==
  [S EXCEPT !.ops = @ + 1,
            !.hist.noisy = @ \cup RunIds(S),
            !.hist.bursts = IF S.hist.inBurst THEN @ ELSE @ + 1,
            !.hist.inBurst = TRUE]

\* the event loop starts a new synchronous stack
NewStack(S) == [S EXCEPT !.hist.inBurst = FALSE]

\* app.dirty(ph, n, { invalidate: inv, event }) with a new event object
UserDirty ==
  /\ UserTurn
  /\ \E ph \in PhaseNames, n \in NodeIds, inv \in BOOLEAN, zero \in BOOLEAN :
       LET S == [Used(Cur) EXCEPT !.evSeq = @ + 1]
       IN Step(dirtyCall(S, ph, n, inv, S.evSeq, zero))

\* app.set / merge / delete / notify (path, { invalidate: inv })
UserNotify ==
  /\ UserTurn
  /\ \E path \in Paths, inv \in BOOLEAN : Step(notify(Used(Cur), path, inv))

\* app.run() by user code
manualRun(S) ==
  run([S EXCEPT !.ops = @ + 1, !.hist.manual = @ \cup {S.runSeq + 1}])

\* app.run() from top-level code
UserRun == stack = <<>> /\ ops < MaxOps /\ Step(manualRun(Cur))

\* the loop of notify() makes its next dirty() call
NotifyStep ==
  /\ Top(Cur).k = "notify"
  /\ \E zero \in BOOLEAN : Step(notifyStep(Cur, zero))

\* the executor that is running returns to run()
ExecReturn == InExecutor /\ Step(execReturn(Cur))

\* the event loop runs the next queued scheduler callback
TaskFire ==
  /\ stack = <<>> /\ tasks # <<>>
  /\ LET S == [NewStack(Cur) EXCEPT !.tasks = Tail(@)]
     IN IF Head(tasks) = "inv"
        THEN \E zero \in BOOLEAN : Step(invalidateCallback(S, zero))
        ELSE Step(runCallback(S))

\* the throttle timer fires (timers run after the microtask queue is empty)
TimerFire ==
  /\ stack = <<>> /\ throttleTimer
  /\ (schedulerType = "microtask" => tasks = <<>>)
  /\ Step(timerCallback(NewStack(Cur)))

Next ==
  \/ UserDirty
  \/ UserNotify
  \/ UserRun
  \/ NotifyStep
  \/ ExecReturn
  \/ TaskFire
  \/ TimerFire

Spec == Init /\ [][Next]_vars

\* the microtask scheduler alone
InitMicro == InitIn(Graphs, {"microtask"}, PhaseTables)

SpecMicro == InitMicro /\ [][Next]_vars

\* the chain A -> B -> C with an `all` phase before an `each` phase, under a
\* scheduler of either kind
InitChain ==
  InitIn({[g |-> ChainGraph, w |-> [n \in NodeIds |-> 0]]},
         {"sync", "microtask"}, {AllTable})

SpecChain == InitChain /\ [][Next]_vars

\* ------------------------------------------------------------------------
\* A second specification: the synchronous scheduler on three nodes of equal
\* depth, user code calling dirty() on phase P1 with the throttle slot free,
\* and run()
\* ------------------------------------------------------------------------
MaxDeepOps == 5

InitSync ==
  InitIn({[g |-> FlatGraph, w |-> [n \in NodeIds |-> 0]]}, {"sync"}, {EachTable})

SyncDirty ==
  /\ (stack = <<>> \/ InExecutor) /\ ops < MaxDeepOps
  /\ \E n \in {"A", "B"}, inv \in BOOLEAN :
       LET S == [Used(Cur) EXCEPT !.evSeq = @ + 1]
       IN Step(dirtyCall(S, "P1", n, inv, S.evSeq, TRUE))

SyncRun == stack = <<>> /\ ops < MaxDeepOps /\ Step(manualRun(Cur))

NextSync ==
  \/ SyncDirty
  \/ SyncRun
  \/ ExecReturn

SpecSync == InitSync /\ [][NextSync]_vars

\* ------------------------------------------------------------------------
\* Reading the history
\* ------------------------------------------------------------------------
PhaseIdx(ph) == getPhase(Cur, ph).idx

\* how many times node n is stored in the buckets of phase ph
Occ(ph, n) ==
  LET q == QueueOf(Cur, ph)
      all == Flatten([k \in 1..Len(q.inHeap) |-> BucketOf(q, q.inHeap[k])])
  IN Cardinality({k \in 1..Len(all) : all[k] = n})

\* every bucket of phase ph, listed by the heap or not
Stored(ph, n) ==
  \E idx \in DOMAIN QueueOf(Cur, ph).buckets :
     SeqHas(QueueOf(Cur, ph).buckets[idx], n)

BitSet(ph, n) ==
  /\ ph \in DOMAIN phaseBits /\ phaseBits[ph] # 0
  /\ TestBit(dirtyMask[n], phaseBits[ph])

Quiescent == stack = <<>> /\ tasks = <<>> /\ ~throttleTimer

Keys == PhaseNames \X NodeIds

\* ------------------------------------------------------------------------
\* C1
\* ------------------------------------------------------------------------
\* C1: every event passed to dirty(phase, node, {event}) since the node last
\* ran in the phase is in the list handed to the node's executor, in call
\* order, also when the call found the node already dirty.
C1_EventsDelivered ==
  \A k \in 1..Len(execLog) :
     LET c == execLog[k]
     IN SelectSeq(c.events, LAMBDA e : e \in Range(c.sent)) = c.sent

\* ------------------------------------------------------------------------
\* C2
\* ------------------------------------------------------------------------
\* C2: after two or more dirty() calls for one (phase, node) made outside
\* run() with no run() in between, the node is stored exactly once in the
\* queue of the phase, and the run() that finds it invokes its executor
\* once and only once unless user code interfered.
C2_StoredOnce ==
  /\ \A key \in Keys :
       (stack = <<>> /\ ghost[key].calls >= 2) => Occ(key[1], key[2]) = 1
  /\ \A k, m \in 1..Len(execLog) :
       (/\ k # m
        /\ execLog[k].calls >= 2
        /\ execLog[k].run = execLog[m].run
        /\ execLog[k].phase = execLog[m].phase
        /\ execLog[k].node = execLog[m].node)
       => execLog[k].run \in hist.noisy

\* ------------------------------------------------------------------------
\* C3
\* ------------------------------------------------------------------------
\* C3: a node queued by a dirty() call made inside an executor is not
\* executed by a run() that was in progress when it was queued.
C3_NotInCurrentRun ==
  \A k \in 1..Len(execLog) : execLog[k].run \notin execLog[k].runs

\* ------------------------------------------------------------------------
\* C4
\* ------------------------------------------------------------------------
\* C4: the bit of the phase is clear on a node when its executor is invoked
\* (`each` and `all`); a dirty() call made for that node from inside that
\* executor is accepted (the bit is set again), and the node stays stored in
\* the queue of the phase, or in the array a run() is still walking, until it
\* is executed again.
Ahead(ph, n) ==
  \E x \in 1..Len(stack) :
     LET f == stack[x]
     IN /\ f.k = "run" /\ f.pc \in {"iter", "exec"}
        /\ f.pi <= Len(phasesArray)
        /\ FramePhase(Cur, f).name = ph /\ FramePhase(Cur, f).kind = "each"
        /\ \E i \in (f.i + 1)..Len(FrameArr(Cur, f)) : FrameArr(Cur, f)[i] = n

C4_ClearedBeforeExecutor ==
  /\ \A k \in 1..Len(execLog) : ~execLog[k].bit
  /\ \A key \in Keys :
       ghost[key].self =>
         /\ BitSet(key[1], key[2])
         /\ Occ(key[1], key[2]) >= 1 \/ Ahead(key[1], key[2])

\* ------------------------------------------------------------------------
\* C5
\* ------------------------------------------------------------------------
\* C5: within one run(), every executor invocation of an earlier-declared
\* phase precedes every invocation of a later-declared phase.
C5_PhaseOrder ==
  \A k, m \in 1..Len(execLog) :
     (k < m /\ execLog[k].run = execLog[m].run)
     => PhaseIdx(execLog[k].phase) <= PhaseIdx(execLog[m].phase)

\* a run() has invoked executors of the first phase and then of the second
C5_Witness ==
  \E k, m \in 1..Len(execLog) :
     /\ k < m /\ execLog[k].run = execLog[m].run
     /\ PhaseIdx(execLog[k].phase) = 1 /\ PhaseIdx(execLog[m].phase) = 2

\* ------------------------------------------------------------------------
\* C6
\* ------------------------------------------------------------------------
\* C6: within one `each` phase of one run(), executor invocations are in
\* ascending priority index, and two nodes of the same priority index are
\* invoked in the order in which they were queued.
C6_AscendingPriority ==
  \A k, m \in 1..Len(execLog) :
     (/\ k < m
      /\ execLog[k].run = execLog[m].run
      /\ execLog[k].phase = execLog[m].phase
      /\ execLog[k].kind = "each")
     => \/ execLog[k].idx < execLog[m].idx
        \/ /\ execLog[k].idx = execLog[m].idx
           /\ execLog[k].stamp < execLog[m].stamp

\* ------------------------------------------------------------------------
\* C7
\* ------------------------------------------------------------------------
\* C7: a run() calls `all` at most once for a phase, and the contexts of the
\* batch are in ascending priority index whatever the order of the dirty()
\* calls.
C7_AllBatchOrdered ==
  \A k, m \in 1..Len(execLog) :
     (/\ k < m
      /\ execLog[k].kind = "all"
      /\ execLog[k].run = execLog[m].run
      /\ execLog[k].phase = execLog[m].phase)
     => /\ execLog[k].call = execLog[m].call
        /\ execLog[k].idx <= execLog[m].idx

\* ------------------------------------------------------------------------
\* C8
\* ------------------------------------------------------------------------
\* C8: in a phase with traversal dirty-and-up, the nodes one notify() queued
\* are executed by one run() from the base node towards its ancestors: on the
\* chain A -> B -> C with base node C the order is C, B, A.
C8_DirtyBeforeAncestors ==
  \A k, m \in 1..Len(execLog) :
     (/\ k < m
      /\ execLog[k].run = execLog[m].run
      /\ execLog[k].phase = execLog[m].phase
      /\ phasesArray[PhaseIdx(execLog[k].phase)].traversal = "dirty-and-up"
      /\ execLog[k].sent # <<>>
      /\ execLog[k].sent = execLog[m].sent)
     => getDepth(graph, execLog[k].node) >= getDepth(graph, execLog[m].node)

\* ------------------------------------------------------------------------
\* C9
\* ------------------------------------------------------------------------
\* C9: under the synchronous scheduler the drain runs inside the mutating
\* call: when the call has returned, no node it queued with invalidate = true
\* is still waiting for its executor.
C9_SyncDrainsInsideCall ==
  (schedulerType = "sync" /\ stack = <<>>) =>
     \A key \in Keys : ~ghost[key].owed

\* ------------------------------------------------------------------------
\* C10
\* ------------------------------------------------------------------------
\* C10: under the microtask scheduler the scheduler starts at most one run()
\* per synchronous stack of mutating calls, at most one run() is pending at
\* any time, no queued node is left without a pending run(), and a run()
\* invokes the executor of a node a second time in a phase only for a
\* dirty() call made during that run().
PendingRuns ==
  Cardinality({k \in 1..Len(tasks) : tasks[k] = "run"})
    + (IF throttleTimer THEN 1 ELSE 0)

MaxThrottleOps == 3

InitThrottle ==
  InitIn({[g |-> FlatGraph, w |-> [n \in NodeIds |-> 0]]}, SchedulerTypes,
         {EachTable})

ThrottleDirty ==
  /\ (stack = <<>> \/ InExecutor) /\ ops < MaxThrottleOps
  /\ \E n \in {"A", "B"}, zero \in BOOLEAN :
       LET S == [Used(Cur) EXCEPT !.evSeq = @ + 1]
       IN Step(dirtyCall(S, "P1", n, TRUE, S.evSeq, zero))

NextThrottle ==
  \/ ThrottleDirty
  \/ ExecReturn
  \/ TaskFire
  \/ TimerFire

SpecThrottle == InitThrottle /\ [][NextThrottle]_vars

\* ------------------------------------------------------------------------
\* C11
\* ------------------------------------------------------------------------
\* C11: while the throttle timer is armed no run() is queued; at most one
\* run() is pending at any time, under every scheduler; and an invalidate()
\* call is never lost: while no run() has begun since the call, the timer is
\* armed or a scheduler callback is queued.
C11_ThrottleCoalesces ==
  /\ throttleTimer => \A k \in 1..Len(tasks) : tasks[k] # "run"
  /\ PendingRuns <= 1
  /\ (stack = <<>> /\ hist.req) => (throttleTimer \/ tasks # <<>>)

\* after a drain, invalidate() was called while the timer was armed, and one
\* further drain has run
C11_Witness ==
  /\ hist.waited >= 1 /\ runSeq = 2 /\ hist.manual = {}
  /\ Quiescent /\ ~hist.req

\* ------------------------------------------------------------------------
\* C12
\* ------------------------------------------------------------------------
\* C12: when a dirty() call with invalidate = true on a known phase and a
\* node that passes the filter has returned and the node has not run since,
\* a drain is scheduled: the timer is armed or a scheduler callback is queued.
C12_DirtySchedules ==
  stack = <<>> =>
    \A key \in Keys : ghost[key].asked => (throttleTimer \/ tasks # <<>>)

\* ------------------------------------------------------------------------
\* A fourth specification: notify() on paths of one and two segments
\* ------------------------------------------------------------------------
MaxPrefixOps == 2

PrefixPaths == Paths \cup { << KeySeg("a") >> }

InitPrefix == InitIn(Graphs, {"microtask"}, PhaseTables)

PrefixNotify ==
  /\ (stack = <<>> \/ InExecutor) /\ ops < MaxPrefixOps
  /\ \E path \in PrefixPaths, inv \in BOOLEAN :
       Step(notify(Used(Cur), path, inv))

NextPrefix ==
  \/ PrefixNotify
  \/ NotifyStep
  \/ ExecReturn
  \/ TaskFire
  \/ TimerFire

SpecPrefix == InitPrefix /\ [][NextPrefix]_vars

\* ------------------------------------------------------------------------
\* C13
\* ------------------------------------------------------------------------
RoutesOf(ph) ==
  LET pl == getPhase(Cur, ph)
  IN IF pl.found THEN phasesArray[pl.idx].routes ELSE <<>>

\* one of the phase's route masks matches the path
RouteMatches(ph, path) ==
  \E k \in 1..Len(RoutesOf(ph)) : dataPathMatch(RoutesOf(ph)[k], path)

\* the mask is registered at or below the trie node the path leads to: the
\* mask without its trailing wildcard starts with the path and continues
\* without placeholder params
MaskBelow(m, path) ==
  LET body == IF m # <<>> /\ m[Len(m)].kind = "Wildcard"
              THEN SubSeq(m, 1, Len(m) - 1) ELSE m
  IN /\ Len(body) >= Len(path)
     /\ \A i \in 1..Len(path) : body[i] = path[i] /\ path[i].kind # "Wildcard"
     /\ \A i \in (Len(path) + 1)..Len(body) :
          ~(body[i].kind = "Param" /\ isPlaceholder(body[i].pval))

RouteBelow(ph, path) ==
  \E k \in 1..Len(RoutesOf(ph)) : MaskBelow(RoutesOf(ph)[k], path)

NotifyFrames == {j \in 1..Len(stack) : stack[j].k = "notify"}

MaxRouterOps == 3

Payloads == {"p", "q"}

\* a.b
MaskAB == << KeySeg("a"), KeySeg("b") >>

\* *.b
MaskWildB == << WildSeg, KeySeg("b") >>

\* a[*]
MaskAIndexWild == << KeySeg("a"), IndexWildSeg >>

\* a[id=7]
MaskAIs7 == << KeySeg("a"), ParamSeg("id", NumVal("7")) >>

\* a[id=$x]
MaskAVarX == << KeySeg("a"), ParamSeg("id", VarVal("x")) >>

\* a[id=$y].b
MaskAVarYB == << KeySeg("a"), ParamSeg("id", VarVal("y")), KeySeg("b") >>

\* a[$i]
MaskAIndexVar == << KeySeg("a"), IndexVarSeg("i") >>

RouterMasks ==
  { MaskAB, MaskAStar, MaskWildB, MaskAIndexWild, MaskAIs7, MaskAVarX,
    MaskAVarYB, MaskAIndexVar }

\* a, a.b, a[0], a[id=7], a[id=7].b, a[id="7"]
RouterTargets ==
  { << KeySeg("a") >>, MaskAB, << KeySeg("a"), IndexSeg("0") >>, MaskAIs7,
    << KeySeg("a"), ParamSeg("id", NumVal("7")), KeySeg("b") >>,
    << KeySeg("a"), ParamSeg("id", StrVal("7")) >> }

\* the state after a mutating call on the router
Mutated(S, R, op, mask, payload) ==
  [S EXCEPT
     !.router = R,
     !.obs = [n |-> @.n + 1,
              muts |-> Append(@.muts, [op |-> op, mask |-> mask,
                                       payload |-> payload]),
              last |-> [op |-> op, mask |-> mask, payload |-> payload,
                        path |-> <<>>, res |-> <<>>, hit |-> FALSE,
                        stale |-> FALSE],
              gone |-> IF op = "removePayload" THEN @.gone \cup {payload}
                       ELSE IF op = "add" THEN @.gone \ {payload}
                       ELSE @.gone]]

\* the state after a query; `stale` says that the cache held an entry of
\* another version and another result for the path
Queried(S, q, op, path, cache) ==
  [S EXCEPT
     !.router = q.R,
     !.obs = [@ EXCEPT
                !.n = @ + 1,
                !.last = [op |-> op, mask |-> <<>>, payload |-> NoPayload,
                          path |-> path, res |-> q.res, hit |-> q.hit,
                          stale |-> /\ path \in DOMAIN cache
                                    /\ cache[path].v # S.router.version
                                    /\ cache[path].res # q.res]]]

DoAdd(masks, bound) ==
  /\ obs.n < bound
  /\ \E m \in masks, p \in Payloads :
       Install(Mutated(Cur, addCall(router, m, p), "add", m, p))

DoRemove(masks, bound) ==
  /\ obs.n < bound
  /\ \E m \in masks, p \in Payloads \cup {NoPayload} :
       Install(Mutated(Cur, removeCall(router, m, p), "remove", m, p))

DoRemovePayload(bound) ==
  /\ obs.n < bound
  /\ \E p \in Payloads :
       Install(Mutated(Cur, removePayloadCall(router, p), "removePayload",
                       <<>>, p))

DoRemoveAll(bound) ==
  /\ obs.n < bound
  /\ Install(Mutated(Cur, removeAllCall(router), "removeAll", <<>>, NoPayload))

DoMatch(targets, bound) ==
  /\ obs.n < bound
  /\ \E t \in targets :
       Install(Queried(Cur, matchCall(router, t), "match", t,
                       router.matchCache))

DoCollectByPrefix(targets, bound) ==
  /\ obs.n < bound
  /\ \E t \in targets :
       Install(Queried(Cur, collectByPrefixCall(router, t), "collectByPrefix",
                       t, router.prefixCache))

DoMatchIncludingPrefix(targets, bound) ==
  /\ obs.n < bound
  /\ \E t \in targets :
       Install(Queried(Cur, matchIncludingPrefixCall(router, t),
                       "matchIncludingPrefix", t, <<>>))

DoMatchWithParams(targets, bound) ==
  /\ obs.n < bound
  /\ \E t \in targets :
       Install(Queried(Cur, matchWithParamsCall(router, t), "matchWithParams",
                       t, <<>>))

InitRouter ==
  InitIn({[g |-> FlatGraph, w |-> [n \in NodeIds |-> 0]]}, {"sync"},
         {EachTable})

NextRouter ==
  \/ DoAdd(RouterMasks, MaxRouterOps)
  \/ DoRemove(RouterMasks, MaxRouterOps)
  \/ DoRemovePayload(MaxRouterOps)
  \/ DoRemoveAll(MaxRouterOps)
  \/ DoMatch(RouterTargets, MaxRouterOps)
  \/ DoCollectByPrefix(RouterTargets, MaxRouterOps)
  \/ DoMatchIncludingPrefix(RouterTargets, MaxRouterOps)
  \/ DoMatchWithParams(RouterTargets, MaxRouterOps)

SpecRouter == InitRouter /\ [][NextRouter]_vars

\* ------------------------------------------------------------------------
\* C14
\* ------------------------------------------------------------------------
\* C14: a match() made after removePayload(p), with no add of p in between,
\* does not return p.
C14_RemovedEverywhere ==
  obs.last.op = "match" => \A p \in obs.gone : ~SeqHas(obs.last.res, p)

\* ------------------------------------------------------------------------
\* C15
\* ------------------------------------------------------------------------
NoPlaceholder(m) ==
  \A i \in 1..Len(m) : ~(m[i].kind = "Param" /\ isPlaceholder(m[i].pval))

\* C15: after add(m, p) on an empty router, for a mask m without placeholder
\* params, match(t) contains p exactly when DataPath.match(m, t).
C15_TrieAgreesWithPairMatcher ==
  ( /\ Len(obs.muts) = 1 /\ obs.muts[1].op = "add"
    /\ NoPlaceholder(obs.muts[1].mask)
    /\ obs.last.op = "match" )
  => ( SeqHas(obs.last.res, obs.muts[1].payload)
       <=> dataPathMatch(obs.muts[1].mask, obs.last.path) )

\* ------------------------------------------------------------------------
\* C17
\* ------------------------------------------------------------------------
\* positions of the mask's placeholder params where the target has a value
Holes(m, t) ==
  {i \in 1..Len(m) :
     /\ i <= Len(t) /\ t[i].kind \in {"Param", "Index"}
     /\ m[i].kind = "Param" /\ isPlaceholder(m[i].pval)}

\* the mask's own placeholder names bound to the target's values
Bind(m, t) ==
  [name \in {m[i].pval.v : i \in Holes(m, t)} |->
     CapturedValue(t[CHOOSE i \in Holes(m, t) : m[i].pval.v = name])]

OnlyAdds == \A j \in 1..Len(obs.muts) : obs.muts[j].op = "add"

\* C17: every entry matchWithParams(t) returns carries the placeholder names
\* of a mask its payload was added under, bound to the values of t.
C17_OwnNamesBound ==
  (OnlyAdds /\ obs.last.op = "matchWithParams") =>
    \A k \in 1..Len(obs.last.res) :
      \E j \in 1..Len(obs.muts) :
        /\ obs.muts[j].payload = obs.last.res[k].payload
        /\ obs.last.res[k].params = Bind(obs.muts[j].mask, obs.last.path)

\* ------------------------------------------------------------------------
\* C18
\* ------------------------------------------------------------------------
\* the payloads in `end` and `deep` of every trie node at or below n, over
\* edges of every kind
SubtreePayloads(tr, n) ==
  UNION { Range(tr.end[c]) \cup Range(tr.deep[c]) :
          c \in {x \in Range(tr.order) :
                   Len(x) >= Len(n) /\ SubSeq(x, 1, Len(n)) = n} }

\* C18: matchIncludingPrefix(path) returns match(path) together with every
\* payload of the subtree rooted at the node the path leads to.
C18_WholeSubtree ==
  obs.last.op = "matchIncludingPrefix" =>
    LET d == prefixDescend(router.root, obs.last.path, 1, <<>>)
    IN Range(obs.last.res) =
         Range(routerMatch(router.root, obs.last.path))
         \cup (IF d.found THEN SubtreePayloads(router.root, d.node) ELSE {})

\* ------------------------------------------------------------------------
\* C19
\* ------------------------------------------------------------------------
\* the trie node add() reaches for a mask, and the payloads it holds for it
RECURSIVE MaskNode(_, _)
MaskNode(m, i) == IF i = 0 THEN <<>> ELSE Append(MaskNode(m, i - 1), SegEdge(m[i]))

PayloadsAt(tr, m) ==
  IF m # <<>> /\ m[Len(m)].kind = "Wildcard"
  THEN IF HasTrieNode(tr, MaskNode(m, Len(m) - 1))
       THEN tr.deep[MaskNode(m, Len(m) - 1)] ELSE <<>>
  ELSE IF HasTrieNode(tr, MaskNode(m, Len(m)))
       THEN tr.end[MaskNode(m, Len(m))] ELSE <<>>

\* C19: after add(m, p), add(m, q), remove(m, p) the mask holds q and not p.
C19_RemoveOnlyThat ==
  ( /\ Len(obs.muts) = 3
    /\ obs.muts[1].op = "add" /\ obs.muts[2].op = "add"
    /\ obs.muts[3].op = "remove"
    /\ obs.muts[2].mask = obs.muts[1].mask
    /\ obs.muts[3].mask = obs.muts[1].mask
    /\ obs.muts[2].payload # obs.muts[1].payload
    /\ obs.muts[3].payload = obs.muts[1].payload )
  => PayloadsAt(router.root, obs.muts[1].mask) = << obs.muts[2].payload >>

\* ------------------------------------------------------------------------
\* A sixth specification: the router with two masks and two targets, and
\* longer sequences of calls
\* ------------------------------------------------------------------------
MaxCacheOps == 4

CacheMasks == { MaskAB, MaskAStar }

CacheTargets == { << KeySeg("a") >>, MaskAB }

NextCache ==
  \/ DoAdd(CacheMasks, MaxCacheOps)
  \/ DoRemove(CacheMasks, MaxCacheOps)
  \/ DoRemovePayload(MaxCacheOps)
  \/ DoRemoveAll(MaxCacheOps)
  \/ DoMatch(CacheTargets, MaxCacheOps)
  \/ DoCollectByPrefix(CacheTargets, MaxCacheOps)

SpecCache == InitRouter /\ [][NextCache]_vars

\* ------------------------------------------------------------------------
\* C16
\* ------------------------------------------------------------------------
\* C16: what match() and collectByPrefix() return, from the cache or not, is
\* what an evaluation on the trie returns.
C16_CachedEqualsUncached ==
  /\ obs.last.op = "match" =>
       obs.last.res = routerMatch(router.root, obs.last.path)
  /\ obs.last.op = "collectByPrefix" =>
       obs.last.res = collectByPrefix(router.root, obs.last.path)

\* a query found a cache entry of an older version that holds another result
C16_Witness ==
  /\ obs.last.op \in {"match", "collectByPrefix"}
  /\ obs.last.stale /\ ~obs.last.hit

\* ------------------------------------------------------------------------
\* A seventh specification: a DepGraph driven directly
\* ------------------------------------------------------------------------
MaxGraphOps == 4

InitGraph ==
  InitIn({[g |-> EmptyGraph, w |-> [n \in NodeIds |-> 0]]} \cup Graphs,
         {"sync"}, {EachTable})

\* the state after a call on the graph, with the graph as it was before
GraphCalled(S, g, op, p, c, res) ==
  [S EXCEPT !.graph = g,
            !.obs = [@ EXCEPT !.n = @ + 1,
                              !.last = [op |-> op, p |-> p, c |-> c,
                                        res |-> res, before |-> S.graph]]]

GraphAddNode ==
  /\ obs.n < MaxGraphOps
  /\ \E n \in NodeIds :
       Install(GraphCalled(Cur, addNode(graph, n), "addNode", n, n, TRUE))

GraphRemoveNode ==
  /\ obs.n < MaxGraphOps
  /\ \E n \in NodeIds :
       Install(GraphCalled(Cur, removeNode(graph, n), "removeNode", n, n, TRUE))

GraphAddEdge ==
  /\ obs.n < MaxGraphOps
  /\ \E p \in NodeIds, c \in NodeIds :
       LET r == addEdge(graph, p, c)
       IN Install(GraphCalled(Cur, r.g, "addEdge", p, c, r.res))

GraphRemoveEdge ==
  /\ obs.n < MaxGraphOps
  /\ \E p \in NodeIds, c \in NodeIds :
       Install(GraphCalled(Cur, removeEdge(graph, p, c), "removeEdge", p, c,
                           TRUE))

\* the sets of nodes handed to expandByTraversal, in insertion order
ExpandBases ==
  ({<<>>} \cup {<<a>> : a \in NodeIds} \cup {<<a, b>> : a, b \in NodeIds})
    \ {<<a, a>> : a \in NodeIds}

Traversals == {"dirty-only", "dirty-and-down", "dirty-and-up", "all"}

GraphExpand ==
  /\ obs.n < MaxGraphOps
  /\ \E base \in ExpandBases, tr \in Traversals :
       Install([Cur EXCEPT
         !.obs = [@ EXCEPT !.n = @ + 1,
                           !.last = [op |-> "expandByTraversal", base |-> base,
                                     traversal |-> tr,
                                     out |-> expandByTraversal(graph, base, tr),
                                     before |-> graph]]])

NextGraph ==
  \/ GraphAddNode
  \/ GraphRemoveNode
  \/ GraphAddEdge
  \/ GraphRemoveEdge
  \/ GraphExpand

SpecGraph == InitGraph /\ [][NextGraph]_vars

\* ------------------------------------------------------------------------
\* C20
\* ------------------------------------------------------------------------
\* b is reached from a through at most k children edges (a itself included)
RECURSIVE ReachIn(_, _, _, _)
ReachIn(g, a, b, k) ==
  \/ a = b
  \/ /\ k > 0
     /\ \E x \in Range(ChildrenSeq(g, a)) : ReachIn(g, x, b, k - 1)

Reaches(g, a, b) == ReachIn(g, a, b, Cardinality(NodeIds))

\* C20: no node reaches itself through one or more children edges; and an
\* addEdge(p, c) with p = c, or with p reachable from c, returned false and
\* left the graph as it was.
C20_Acyclic ==
  /\ \A n \in NodeIds :
       \A x \in Range(ChildrenSeq(graph, n)) : ~Reaches(graph, x, n)
  /\ ( /\ obs.last.op = "addEdge"
       /\ Reaches(obs.last.before, obs.last.c, obs.last.p) )
     => (~obs.last.res /\ graph = obs.last.before)

\* an edge that would close a path of two or more edges was refused
C20_Witness ==
  /\ obs.last.op = "addEdge" /\ ~obs.last.res
  /\ obs.last.p # obs.last.c
  /\ ~SeqHas(ChildrenSeq(obs.last.before, obs.last.c), obs.last.p)
  /\ Reaches(obs.last.before, obs.last.c, obs.last.p)

\* ------------------------------------------------------------------------
\* C21
\* ------------------------------------------------------------------------
InGraph(g) == Range(g.nodes)

\* the largest depth among the nodes of ps
MaxDepthAmong(g, ps) ==
  CHOOSE d \in {getDepth(g, p) : p \in ps} :
    \A p \in ps : getDepth(g, p) <= d

\* C21: a node without parents has depth 0, and every other node has depth
\* one more than the largest depth among its parents.
C21_DepthFromParents ==
  \A v \in InGraph(graph) :
    LET ps == Range(ParentsSeq(graph, v))
    IN getDepth(graph, v) = IF ps = {} THEN 0 ELSE 1 + MaxDepthAmong(graph, ps)

\* a removal changed the depth of a node that was no end of a removed edge
C21_Witness ==
  /\ obs.last.op \in {"removeNode", "removeEdge"}
  /\ \E v \in InGraph(graph) :
       /\ v # obs.last.c
       /\ ~SeqHas(ChildrenSeq(obs.last.before, obs.last.p), v)
       /\ getDepth(graph, v) # getDepth(obs.last.before, v)

\* ------------------------------------------------------------------------
\* C22
\* ------------------------------------------------------------------------
\* C22: the cached roots are exactly the nodes of the graph without parents.
C22_RootsAreParentless ==
  Range(graph.roots) = {v \in InGraph(graph) : ParentsSeq(graph, v) = <<>>}

\* a call other than addNode made a node a root
C22_Witness ==
  /\ obs.last.op \in {"removeNode", "removeEdge"}
  /\ \E v \in Range(graph.roots) : ~SeqHas(obs.last.before.roots, v)

\* ------------------------------------------------------------------------
\* C23
\* ------------------------------------------------------------------------
\* C23: the adjacency maps are keyed by the nodes of the graph, hold only
\* nodes of the graph, and c is a child of p exactly when p is a parent of c.
C23_AdjacencyClosed ==
  /\ DOMAIN graph.children = InGraph(graph)
  /\ DOMAIN graph.parents = InGraph(graph)
  /\ \A v \in InGraph(graph) :
       /\ Range(graph.children[v]) \subseteq InGraph(graph)
       /\ Range(graph.parents[v]) \subseteq InGraph(graph)
  /\ \A p \in InGraph(graph), c \in InGraph(graph) :
       SeqHas(graph.children[p], c) <=> SeqHas(graph.parents[c], p)

\* a node with a parent and a child was removed
C23_Witness ==
  /\ obs.last.op = "removeNode"
  /\ SeqHas(obs.last.before.nodes, obs.last.p)
  /\ ParentsSeq(obs.last.before, obs.last.p) # <<>>
  /\ ChildrenSeq(obs.last.before, obs.last.p) # <<>>

\* ------------------------------------------------------------------------
\* C24
\* ------------------------------------------------------------------------
\* C24: an addEdge that returned false left nodes, parents, children,
\* depths and roots as they were.
C24_RejectedEdgeChangesNothing ==
  (obs.last.op = "addEdge" /\ ~obs.last.res) => graph = obs.last.before

\* an edge between two nodes of the graph was refused for closing a cycle
\* while its child was a root
C24_Witness ==
  /\ obs.last.op = "addEdge" /\ ~obs.last.res
  /\ obs.last.p # obs.last.c
  /\ SeqHas(graph.nodes, obs.last.p) /\ SeqHas(graph.nodes, obs.last.c)
  /\ SeqHas(graph.roots, obs.last.c)

\* ------------------------------------------------------------------------
\* C25
\* ------------------------------------------------------------------------
\* position of a node on the chain A -> B -> C, counted from 0
ChainIndex(n) == CASE n = "A" -> 0 [] n = "B" -> 1 [] OTHER -> 2

\* C25: 'dirty-and-down' returns, without repetition, the base nodes found
\* in the graph and every node reached from them through children edges; on
\* the chain of N nodes and a base of one node this is N - index nodes.
C25_DirtyAndDown ==
  (obs.last.op = "expandByTraversal" /\ obs.last.traversal = "dirty-and-down")
  => LET out == obs.last.out
         base == Range(obs.last.base) \cap InGraph(graph)
     IN /\ Range(out) =
             {v \in InGraph(graph) : \E b \in base : Reaches(graph, b, v)}
        /\ Cardinality(Range(out)) = Len(out)
        /\ (graph = ChainGraph /\ Len(obs.last.base) = 1)
             => Len(out) = Cardinality(NodeIds) - ChainIndex(obs.last.base[1])

\* the middle of a chain expanded to itself and the leaf
C25_Witness ==
  /\ obs.last.op = "expandByTraversal"
  /\ obs.last.traversal = "dirty-and-down"
  /\ graph = ChainGraph
  /\ obs.last.base = <<"B">>
  /\ obs.last.out = <<"B", "C">>

\* ------------------------------------------------------------------------
\* An eighth specification: a table of 33 phases; user code calls dirty() on
\* the first and on the last phase
\* ------------------------------------------------------------------------
MaxWideOps == 3

\* the names of the phases at positions 2..32
FillerNames ==
  <<
     "F2", "F3", "F4", "F5", "F6", "F7", "F8", "F9", "F10", "F11",
     "F12", "F13", "F14", "F15", "F16", "F17", "F18", "F19", "F20",
     "F21", "F22", "F23", "F24", "F25", "F26", "F27", "F28", "F29",
     "F30", "F31", "F32"
  >>

\* P1 at index 0, 31 phases without routes, P2 at index 32
WideTable ==
  << Phase("P1", "dirty-only", << MaskAStar >>, "each", NodeIds) >>
  \o [i \in 1..Len(FillerNames) |->
        Phase(FillerNames[i], "dirty-only", <<>>, "each", NodeIds)]
  \o << Phase("P2", "dirty-only", << MaskBStar >>, "each", NodeIds) >>

InitWide ==
  InitIn({[g |-> FlatGraph, w |-> [n \in NodeIds |-> 0]]}, {"microtask"},
         {WideTable})

WideDirty ==
  /\ (stack = <<>> \/ InExecutor) /\ ops < MaxWideOps
  /\ \E ph \in PhaseNames, n \in {"A", "B"}, inv \in BOOLEAN, zero \in BOOLEAN :
       LET S == [Used(Cur) EXCEPT !.evSeq = @ + 1]
       IN Step(dirtyCall(S, ph, n, inv, S.evSeq, zero))

NextWide ==
  \/ WideDirty
  \/ ExecReturn
  \/ TaskFire
  \/ TimerFire

SpecWide == InitWide /\ [][NextWide]_vars

\* ------------------------------------------------------------------------
\* C29
\* ------------------------------------------------------------------------
\* the tokens of two phases of different names differ
TokensDistinct ==
  \A i \in 1..Len(phasesArray), j \in 1..Len(phasesArray) :
    phasesArray[i].name # phasesArray[j].name
      => phaseBits[phasesArray[i].name] # phaseBits[phasesArray[j].name]

\* C29: dirty() skipped a (phase, node) only after it had queued that node in
\* that same phase, which is what distinct tokens per phase guarantee.
C29_NoSkipAcrossPhases ==
  \A key \in Keys : ghost[key].marks > 0 => ghost[key].stamp > 0

\* ------------------------------------------------------------------------
\* A ninth specification: nodes of every weight of `Weights` on the chain and
\* on three roots; top-level code calls dirty() and the scheduler runs
\* ------------------------------------------------------------------------
MaxWeightOps == 3

\* opts.weight of the RaphNode constructor, which stores any number given
Weights == {0, 5, PRIORITY_SCALE + 1}

InitWeights ==
  InitIn({[g |-> gr, w |-> w] : gr \in {ChainGraph, FlatGraph},
                                w \in [NodeIds -> Weights]},
         {"microtask"}, {EachTable})

WeightsDirty ==
  /\ stack = <<>> /\ ops < MaxWeightOps
  /\ \E n \in NodeIds, inv \in BOOLEAN, zero \in BOOLEAN :
       LET S == [Used(Cur) EXCEPT !.evSeq = @ + 1]
       IN Step(dirtyCall(S, "P1", n, inv, S.evSeq, zero))

NextWeights ==
  \/ WeightsDirty
  \/ ExecReturn
  \/ TaskFire
  \/ TimerFire

SpecWeights == InitWeights /\ [][NextWeights]_vars

\* ------------------------------------------------------------------------
\* C30
\* ------------------------------------------------------------------------
\* a goes before b: it is less deep, or as deep and heavier
GoesBefore(a, b) ==
  \/ getDepth(graph, a) < getDepth(graph, b)
  \/ /\ getDepth(graph, a) = getDepth(graph, b)
     /\ weight[a] > weight[b]

\* the bucket indexes under which dirty() stored node n in phase ph
IndexesOf(ph, n) ==
  {idx \in DOMAIN QueueOf(Cur, ph).buckets :
     SeqHas(QueueOf(Cur, ph).buckets[idx], n)}

\* C30: of two nodes queued in a phase, the less deep one has the smaller
\* priority index, and of two equally deep ones the heavier; and the
\* executor calls of one run of a phase never run a node after one it goes
\* before.
C30_DepthThenWeight ==
  /\ \A ph \in PhaseNames, a \in NodeIds, b \in NodeIds :
       GoesBefore(a, b) =>
         \A ia \in IndexesOf(ph, a), ib \in IndexesOf(ph, b) : ia < ib
  /\ \A i \in 1..Len(execLog), j \in 1..Len(execLog) :
       ( /\ i < j
         /\ execLog[i].run = execLog[j].run
         /\ execLog[i].phase = execLog[j].phase )
       => ~GoesBefore(execLog[j].node, execLog[i].node)

\* ------------------------------------------------------------------------
\* Two data adapters driven directly with the same calls
\* ------------------------------------------------------------------------
Num(d) == Val(NumVal(d))

\* { rows: [ { id: 1, x: 0 }, { id: 2, x: 0 } ] }
RowsDoc ==
  Obj("rows" :> Arr(1, << Obj("id" :> Num("1") @@ "x" :> Num("0")),
                          Obj("id" :> Num("2") @@ "x" :> Num("0")) >>))

Row(d) == << KeySeg("rows"), IndexSeg(d) >>

RowById(d) == << KeySeg("rows"), ParamSeg("id", NumVal(d)) >>

\* a value without the identities of its arrays
RECURSIVE Strip(_)
Strip(v) ==
  CASE v.t = "array" -> Arr(0, [i \in 1..Len(v.a) |-> Strip(v.a[i])])
    [] v.t = "object" -> Obj([k \in DOMAIN v.f |-> Strip(v.f[k])])
    [] OTHER -> v

\* what the caller saw of the last call but one
Brief(c) ==
  IF c.op = "none" THEN c
  ELSE [op |-> c.op, path |-> c.path, value |-> c.value, on |-> c.on.ok,
        off |-> c.off.ok]

\* what the caller sees of the result r of the call op
Seen(op, r) ==
  CASE op = "get" -> [ok |-> ~r.threw, res |-> Strip(r.res)]
    [] op = "indexOf" -> [ok |-> TRUE, res |-> r.res]
    [] OTHER -> [ok |-> r.ok, res |-> Undef]

\* the adapter A at the time of the next call
Called(A) == [A EXCEPT !.now = obs.n + 1]

\* the state after a call that returned on and off on the two adapters
DataCalled(S, op, path, value, on, off) ==
  [S EXCEPT !.adapters = [on |-> on.A, off |-> off.A],
            !.obs = [@ EXCEPT !.n = @ + 1,
                              !.last = [op |-> op, path |-> path,
                                        value |-> value, on |-> Seen(op, on),
                                        off |-> Seen(op, off),
                                        prev |-> Brief(S.obs.last)]]]

DoSet(paths, values, bound) ==
  /\ obs.n < bound
  /\ \E p \in paths, v \in values :
       Install(DataCalled(Cur, "set", p, v, set(Called(adapters.on), p, v),
                          set(Called(adapters.off), p, v)))

DoMerge(paths, values, bound) ==
  /\ obs.n < bound
  /\ \E p \in paths, v \in values :
       Install(DataCalled(Cur, "merge", p, v, merge(Called(adapters.on), p, v),
                          merge(Called(adapters.off), p, v)))

DoDelete(paths, bound) ==
  /\ obs.n < bound
  /\ \E p \in paths :
       Install(DataCalled(Cur, "delete", p, Undef,
                          delete(Called(adapters.on), p),
                          delete(Called(adapters.off), p)))

DoGet(paths, bound) ==
  /\ obs.n < bound
  /\ \E p \in paths :
       Install(DataCalled(Cur, "get", p, Undef, get(Called(adapters.on), p),
                          get(Called(adapters.off), p)))

DoIndexOf(paths, bound) ==
  /\ obs.n < bound
  /\ \E p \in paths :
       Install(DataCalled(Cur, "indexOf", p, Undef,
                          indexOf(Called(adapters.on), p),
                          indexOf(Called(adapters.off), p)))

MaxDataOps == 2

DataPaths ==
  { Row("0"), Row("1"), RowById("2"), RowById("2") \o << KeySeg("x") >>,
    RowById("2") \o << KeySeg("id") >>, Row("1") \o << KeySeg("id") >> }

DataValues ==
  { Num("3"), Obj("x" :> Num("9")), Obj("id" :> Num("2") @@ "x" :> Num("9")) }

ArrayDeletes == {"unset", "splice"}

IndexStrategies == {"eager-all-keys", "lazy-key"}

InitData ==
  \E doc \in {Obj(<<>>), RowsDoc}, ad \in ArrayDeletes, st \in IndexStrategies :
    InitAs([Blank(CHOOSE gw \in Graphs : TRUE, "sync") EXCEPT
              !.adapters = NewAdapters(doc, ad, st)])

NextData ==
  \/ DoSet(DataPaths, DataValues, MaxDataOps)
  \/ DoMerge(DataPaths, DataValues, MaxDataOps)
  \/ DoDelete(DataPaths, MaxDataOps)
  \/ DoGet(DataPaths, MaxDataOps)
  \/ DoIndexOf(DataPaths, MaxDataOps)

SpecData == InitData /\ [][NextData]_vars

\* ------------------------------------------------------------------------
\* C26
\* ------------------------------------------------------------------------
\* C26: a get or an indexOf returns the same on the adapter with the
\* secondary index and on the adapter without it (the same value or number,
\* or an exception on both).
C26_SameWithAndWithoutIndex ==
  obs.last.op \in {"get", "indexOf"} => obs.last.on = obs.last.off

\* ------------------------------------------------------------------------
\* C27
\* ------------------------------------------------------------------------
\* C27: a get(p) that directly follows a set(p, v) that returned normally
\* returns v, on either adapter.
C27_GetAfterSet ==
  ( /\ obs.last.op = "get"
    /\ obs.last.prev.op = "set"
    /\ obs.last.prev.path = obs.last.path )
  => /\ obs.last.prev.on =>
          (obs.last.on.ok /\ obs.last.on.res = Strip(obs.last.prev.value))
     /\ obs.last.prev.off =>
          (obs.last.off.ok /\ obs.last.off.res = Strip(obs.last.prev.value))

\* ------------------------------------------------------------------------
\* C28
\* ------------------------------------------------------------------------
MaxReplaceOps == 4

ReplacePaths ==
  { Row("0"), Row("1"), RowById("2"), RowById("2") \o << KeySeg("x") >> }

LookupPaths == { RowById("2"), RowById("2") \o << KeySeg("x") >> }

ReplaceValues ==
  { Obj("id" :> Num("2") @@ "x" :> Num("9")),
    Obj("id" :> Num("3") @@ "x" :> Num("9")) }

InitReplace ==
  \E ad \in ArrayDeletes, st \in IndexStrategies :
    InitAs([Blank(CHOOSE gw \in Graphs : TRUE, "sync") EXCEPT
              !.adapters = NewAdapters(RowsDoc, ad, st)])

NextReplace ==
  \/ DoSet(ReplacePaths, ReplaceValues, MaxReplaceOps)
  \/ DoDelete({RowById("2")}, MaxReplaceOps)
  \/ DoGet(LookupPaths, MaxReplaceOps)
  \/ DoIndexOf({RowById("2")}, MaxReplaceOps)

SpecReplace == InitReplace /\ [][NextReplace]_vars

\* the elements of rows, in the adapter with the index
RowsNow == Member(adapters.on.root, KeyStep("rows")).a

\* the last call but one was a set with an Index leaf that returned normally
AfterReplacement ==
  /\ obs.last.op # "none"
  /\ obs.last.prev.op = "set"
  /\ obs.last.prev.path[Len(obs.last.prev.path)].kind = "Index"
  /\ obs.last.prev.on

\* C28: once an element of an array was replaced by position, no Param
\* lookup on the array is answered from an index entry written before the
\* replacement: right after the replacement the array's indexes are dirty,
\* and the lookup that follows returns an element that has the key and the
\* value now, or finds nothing when no element has them.
C28_LookupAfterReplacement ==
  /\ ~adapters.on.staleHit
  /\ ( /\ obs.last.op = "set"
       /\ obs.last.path[Len(obs.last.path)].kind = "Index"
       /\ obs.last.on.ok )
     => LET id == Member(adapters.on.root, KeyStep("rows")).id
        IN id \in DOMAIN adapters.on.indexDirty /\ adapters.on.indexDirty[id]
  /\ ( /\ AfterReplacement
       /\ obs.last.op = "indexOf"
       /\ obs.last.path = RowById("2") )
     => IF obs.last.on.res = -1
        THEN \A i \in 1..Len(RowsNow) :
               Member(RowsNow[i], KeyStep("id")) # Num("2")
        ELSE Member(RowsNow[obs.last.on.res + 1], KeyStep("id")) = Num("2")
  /\ (AfterReplacement /\ obs.last.op = "get" /\ obs.last.path = RowById("2"))
     => IF obs.last.on.res = Undef
        THEN \A i \in 1..Len(RowsNow) :
               Member(RowsNow[i], KeyStep("id")) # Num("2")
        ELSE Member(obs.last.on.res, KeyStep("id")) = Num("2")

\* rows[id=2].x is read as 9 right after set("rows[i]", {id: 2, x: 9}), from
\* indexes rebuilt over the ones that were there before the replacement
C28_Witness ==
  /\ AfterReplacement
  /\ obs.last.prev.value = Obj("id" :> Num("2") @@ "x" :> Num("9"))
  /\ obs.last.op = "get"
  /\ obs.last.path = RowById("2") \o << KeySeg("x") >>
  /\ obs.last.on.res = Num("9")
  /\ adapters.on.discarded

\* ------------------------------------------------------------------------
\* C37
\* ------------------------------------------------------------------------
\* C37: a set, merge or delete call that throws leaves the document of the
\* adapter as it was before the call.
C37_ThrowLeavesDocument ==
  [][ /\ obs'.n = obs.n + 1
      /\ obs'.last.op \in {"set", "merge", "delete"}
      => /\ ~obs'.last.on.ok => adapters'.on.root = adapters.on.root
         /\ ~obs'.last.off.ok => adapters'.off.root = adapters.off.root ]_vars

\* ------------------------------------------------------------------------
\* A MinHeap driven directly
\* ------------------------------------------------------------------------
MaxHeapOps == 5

HeapValues == 0..2

\* the arrays handed to buildFrom
HeapSources ==
  {<<>>} \cup UNION {[1..k -> HeapValues] : k \in 1..3}

\* the reference: the stored values as a non-decreasing sequence
StoredValues == obs.last.stored

\* the reference without its smallest value
Rest(s) == IF s = <<>> THEN s ELSE Tail(s)

SortedInsert(s, x) ==
  LET k == Cardinality({i \in 1..Len(s) : s[i] <= x})
  IN SubSeq(s, 1, k) \o <<x>> \o SubSeq(s, k + 1, Len(s))

RECURSIVE SortedFrom(_)
SortedFrom(src) ==
  IF src = <<>> THEN <<>> ELSE SortedInsert(SortedFrom(Tail(src)), Head(src))

HeapCalled(S, h, op, res, stored) ==
  [S EXCEPT !.heap = h,
            !.obs = [@ EXCEPT !.n = @ + 1,
                              !.last = [op |-> op, res |-> res,
                                        stored |-> stored,
                                        was |-> S.obs.last.stored]]]

InitHeap ==
  InitAs([Blank(CHOOSE gw \in Graphs : TRUE, "sync") EXCEPT
            !.obs = [ObsInit EXCEPT !.last = [op |-> "none", res |-> -1,
                                              stored |-> <<>>, was |-> <<>>]]])

HeapPush ==
  /\ obs.n < MaxHeapOps
  /\ \E x \in HeapValues :
       Install(HeapCalled(Cur, heapPushOn(heap, x), "push", -1,
                          SortedInsert(StoredValues, x)))

HeapPop ==
  /\ obs.n < MaxHeapOps
  /\ Install(HeapCalled(Cur, heapPopOn(heap).h, "pop", heapPopOn(heap).res,
                        Rest(StoredValues)))

HeapReplaceTop ==
  /\ obs.n < MaxHeapOps
  /\ \E x \in HeapValues :
       Install(HeapCalled(Cur, replaceTop(heap, x).h, "replaceTop",
                          replaceTop(heap, x).res,
                          SortedInsert(Rest(StoredValues), x)))

HeapBuildFrom ==
  /\ obs.n < MaxHeapOps
  /\ \E src \in HeapSources :
       Install(HeapCalled(Cur, buildFrom(heap, src), "buildFrom", -1,
                          SortedFrom(src)))

HeapClear ==
  /\ obs.n < MaxHeapOps
  /\ \E preserveCapacity \in BOOLEAN :
       Install(HeapCalled(Cur, heapClear(heap, preserveCapacity), "clear", -1,
                          <<>>))

NextHeap == HeapPush \/ HeapPop \/ HeapReplaceTop \/ HeapBuildFrom \/ HeapClear

SpecHeap == InitHeap /\ [][NextHeap]_vars

\* the values pop() returns when it is called until the heap is empty
RECURSIVE PopAll(_)
PopAll(h) ==
  IF h.size = 0 THEN <<>> ELSE <<heapPopOn(h).res>> \o PopAll(heapPopOn(h).h)

\* ------------------------------------------------------------------------
\* C33
\* ------------------------------------------------------------------------
\* C33: popping the heap until it is empty yields the stored values,
\* duplicates included, in non-decreasing order, and a pop() returned the
\* smallest value stored before it, or undefined on the empty heap.
C33_PopsSmallest ==
  /\ PopAll(heap) = StoredValues
  /\ obs.last.op = "pop" =>
       obs.last.res = (IF obs.last.was = <<>> THEN -1 ELSE obs.last.was[1])

\* a pop() that had to choose between two children below the new top, in a
\* heap that holds a value twice
C33_Witness ==
  /\ obs.last.op = "pop"
  /\ Len(obs.last.was) >= 4
  /\ \E i \in 1..(Len(obs.last.was) - 1) : obs.last.was[i] = obs.last.was[i + 1]
  /\ obs.last.res = obs.last.was[1]
  /\ heap.size = Len(StoredValues)

\* ------------------------------------------------------------------------
\* Path strings parsed, printed and parsed again
\* ------------------------------------------------------------------------
\* longest path, in segments
MaxSegs == 3

\* a segment as it is written: keys, indices, the key wildcard, the index
\* wildcard and literal params ([k=7], [k="a"], [k=a])
WrittenKeys == { <<"a">>, <<"b">> }

WrittenBrackets ==
  { <<"[", "0", "]">>, <<"[", "7", "]">>, <<"[", "*", "]">>,
    <<"[", "k", "=", "7", "]">>, <<"[", "k", "=", "\"", "a", "\"", "]">>,
    <<"[", "k", "=", "a", "]">> }

Written == WrittenKeys \cup {<<"*">>} \cup WrittenBrackets

\* the path string of the written segments ws: a '.' goes before a key or
\* a key wildcard that is not first
RECURSIVE Join(_)
Join(ws) ==
  IF ws = <<>> THEN <<>>
  ELSE LET front == Join(SubSeq(ws, 1, Len(ws) - 1))
           w == ws[Len(ws)]
       IN IF w \in WrittenBrackets \/ Len(ws) = 1 THEN front \o w
          ELSE front \o <<".">> \o w

PathStrings == { Join(ws) : ws \in UNION {[1..k -> Written] : k \in 1..MaxSegs} }

InitPath ==
  \E str \in PathStrings :
    InitAs([Blank(CHOOSE gw \in Graphs : TRUE, "sync") EXCEPT
              !.obs = [ObsInit EXCEPT !.last = [op |-> "given", s |-> str]]])

\* dp = DataPath.from(s); s2 = dp.toStringPath()
PathPrint ==
  /\ obs.last.op = "given"
  /\ obs' = [obs EXCEPT
               !.n = @ + 1,
               !.last = [op |-> "toStringPath", s |-> obs.last.s,
                         segs |-> parseSegments(obs.last.s),
                         s2 |-> toStringPath(parseSegments(obs.last.s))]]
  /\ UNCHANGED << graph, weight, dirtyMask, phasesArray, phaseBits, nodeRouter,
                  phaseRouter, dirty, schedulerType, schedulerPending,
                  throttleTimer, tasks, loop, stack, ops, evSeq, runSeq,
                  execLog, ghost, hist, router, adapters, heap >>

\* dp2 = DataPath.from(s2); DataPath.match(s, s2); DataPath.match(s2, s)
PathMatch ==
  /\ obs.last.op = "toStringPath"
  /\ obs' = [obs EXCEPT
               !.n = @ + 1,
               !.last = [op |-> "match", s |-> obs.last.s,
                         segs |-> obs.last.segs, s2 |-> obs.last.s2,
                         segs2 |-> parseSegments(obs.last.s2),
                         there |-> dataPathMatch(obs.last.segs,
                                                 parseSegments(obs.last.s2)),
                         back |-> dataPathMatch(parseSegments(obs.last.s2),
                                                obs.last.segs)]]
  /\ UNCHANGED << graph, weight, dirtyMask, phasesArray, phaseBits, nodeRouter,
                  phaseRouter, dirty, schedulerType, schedulerPending,
                  throttleTimer, tasks, loop, stack, ops, evSeq, runSeq,
                  execLog, ghost, hist, router, adapters, heap >>

NextPath == PathPrint \/ PathMatch

SpecPath == InitPath /\ [][NextPath]_vars

Kinds(segs) == [i \in 1..Len(segs) |-> segs[i].kind]

\* ------------------------------------------------------------------------
\* C31
\* ------------------------------------------------------------------------
\* C31: a path string and the string printed from its segments match each
\* other in both directions, and the printed string parses into segments of
\* the same kinds.
C31_RoundTrip ==
  obs.last.op = "match" =>
    /\ obs.last.there
    /\ obs.last.back
    /\ Kinds(obs.last.segs2) = Kinds(obs.last.segs)

\* ------------------------------------------------------------------------
\* C32
\* ------------------------------------------------------------------------
\* the run() calls that returned in this step
ReturnedRuns ==
  ({stack[j].run : j \in {x \in 1..Len(stack) : stack[x].k = "run"}}
     \cup ((runSeq + 1)..runSeq'))
  \ {stack'[j].run : j \in {x \in 1..Len(stack') : stack'[x].k = "run"}}

Places(q, n) ==
  UNION {{<<idx, i>> : i \in {x \in 1..Len(q.buckets[idx]) : q.buckets[idx][x] = n}} :
           idx \in DOMAIN q.buckets}

MaxRedirtyOps == 2

\* more executor calls than one run() has (phase, node) pairs to execute
MaxExecs == 7

InitRedirty == InitIn(Graphs, {"microtask"}, {EachTable})

RedirtyDirty ==
  /\ stack = <<>> /\ ops < MaxRedirtyOps
  /\ \E ph \in PhaseNames, n \in NodeIds :
       Step(dirtyCall(Used(Cur), ph, n, FALSE, 0, TRUE))

RedirtyRun == stack = <<>> /\ ops < MaxRedirtyOps /\ Step(manualRun(Cur))

\* the executor calls of run() number r
CallsOf(r) == {k \in 1..Len(execLog) : execLog[k].run = r}

\* each(ctx) { app.dirty(ctx.phase, n); } for its own node or an executed one
ExecRedirty ==
  /\ InExecutor
  /\ Cardinality(CallsOf(Top(Cur).run)) < MaxExecs
  /\ LET me == execLog[Len(execLog)]
         S == [Cur EXCEPT !.hist.noisy = @ \cup RunIds(Cur)]
     IN \E k \in CallsOf(me.run) :
          /\ execLog[k].phase = me.phase
          /\ Step(execReturn(dirtyCall(S, me.phase, execLog[k].node,
                                       FALSE, 0, TRUE)))

NextRedirty ==
  \/ RedirtyDirty
  \/ RedirtyRun
  \/ ExecRedirty

SpecRedirty == InitRedirty /\ [][NextRedirty]_vars

\* ------------------------------------------------------------------------
\* C36
\* ------------------------------------------------------------------------
\* C36: a run() returns after finitely many executor calls, also when every
\* executor call marks its own node, or a node already executed in the
\* phase, dirty again: with fewer (phase, node) pairs than MaxExecs, no run()
\* makes MaxExecs executor calls.
C36_RunReturns ==
  \A r \in 1..runSeq : Cardinality(CallsOf(r)) < MaxExecs

\* ------------------------------------------------------------------------
\* A specification of node removal: top-level code marks nodes of the graph
\* dirty, removes nodes with app.removeNode(node) or node.remove(), and calls
\* run().  obs.gone holds the removed nodes.
\* ------------------------------------------------------------------------
MaxRemoveOps == 3

\* app.removeNode(node); node.remove() also resets the weight
appRemoveNode(S, n, viaNode) ==
  [S EXCEPT !.graph = removeNode(@, n),
            !.weight[n] = IF viaNode THEN 0 ELSE @,
            !.obs.n = @ + 1,
            !.obs.gone = @ \cup {n}]

InitRemove == InitIn(Graphs, {"microtask"}, PhaseTables)

RemoveDirty ==
  /\ stack = <<>> /\ ops < MaxRemoveOps
  /\ \E ph \in PhaseNames, n \in Range(graph.nodes) :
       Step(dirtyCall(Used(Cur), ph, n, FALSE, 0, TRUE))

RemoveNode ==
  /\ stack = <<>> /\ ops < MaxRemoveOps
  /\ \E n \in Range(graph.nodes), viaNode \in BOOLEAN :
       Step(appRemoveNode(Used(Cur), n, viaNode))

RemoveRun == stack = <<>> /\ ops < MaxRemoveOps /\ Step(manualRun(Cur))

NextRemove ==
  \/ RemoveDirty
  \/ RemoveNode
  \/ RemoveRun
  \/ ExecReturn

SpecRemove == InitRemove /\ [][NextRemove]_vars

\* ------------------------------------------------------------------------
\* C38
\* ------------------------------------------------------------------------
\* C38: a node that was removed from the app after it had been marked dirty
\* is not handed to an executor by any later run().
C38_RemovedNotExecuted ==
  [][ \A k \in (Len(execLog) + 1)..Len(execLog') :
        execLog'[k].node \notin obs.gone ]_vars

\* ------------------------------------------------------------------------
\* A specification of phase tables that change: top-level code calls
\* dirty(), run(), definePhases() with one of three tables, addPhase() with
\* a phase the array does not hold, and clearPhases()
\* ------------------------------------------------------------------------
MaxPhaseOps == 3

\* the two phases of EachTable, the same two in the other order, the first
\* alone
Redefinitions ==
  {EachTable, << EachTable[2], EachTable[1] >>, << EachTable[1] >>}

InitPhases ==
  InitIn({[g |-> FlatGraph, w |-> [n \in NodeIds |-> 0]]}, {"microtask"},
         {EachTable})

PhasesDirty ==
  /\ stack = <<>> /\ ops < MaxPhaseOps
  /\ \E ph \in PhaseNames, n \in {"A", "B"} :
       Step(dirtyCall(Used(Cur), ph, n, FALSE, 0, TRUE))

PhasesRun == stack = <<>> /\ ops < MaxPhaseOps /\ Step(manualRun(Cur))

PhasesDefine ==
  /\ stack = <<>> /\ ops < MaxPhaseOps
  /\ \E pt \in Redefinitions : Step(definePhases(Used(Cur), pt))

PhasesAdd ==
  /\ stack = <<>> /\ ops < MaxPhaseOps
  /\ \E p \in Range(EachTable) :
       /\ \A i \in 1..Len(phasesArray) : phasesArray[i].name # p.name
       /\ Step(addPhase(Used(Cur), p))

PhasesClear ==
  stack = <<>> /\ ops < MaxPhaseOps /\ Step(clearPhases(Used(Cur)))

NextPhases ==
  \/ PhasesDirty
  \/ PhasesRun
  \/ PhasesDefine
  \/ PhasesAdd
  \/ PhasesClear
  \/ ExecReturn

SpecPhases == InitPhases /\ [][NextPhases]_vars

\* ------------------------------------------------------------------------
\* C39
\* ------------------------------------------------------------------------
\* C39: outside run(), a node has the bit of a defined phase set exactly when
\* it is stored in a bucket of the queue of that phase.
C39_BitIffStored ==
  stack = <<>> =>
    \A ph \in DOMAIN phaseBits, n \in NodeIds : BitSet(ph, n) <=> Stored(ph, n)

\* ------------------------------------------------------------------------
\* A specification of a graph that changes between dirty() and the drain:
\* top-level code calls dirty(), addDependency(), removeDependency() and
\* run(), and both phases are `each` phases
\* ------------------------------------------------------------------------
MaxEditOps == 4

addDependency(S, p, c) == [S EXCEPT !.graph = addEdge(@, p, c).g]

removeDependency(S, p, c) == [S EXCEPT !.graph = removeEdge(@, p, c)]

InitEdit == InitIn(Graphs, {"microtask"}, {EachTable})

EditDirty ==
  /\ stack = <<>> /\ ops < MaxEditOps
  /\ \E ph \in PhaseNames, n \in NodeIds :
       Step(dirtyCall(Used(Cur), ph, n, FALSE, 0, TRUE))

EditAdd ==
  /\ stack = <<>> /\ ops < MaxEditOps
  /\ \E p \in NodeIds, c \in NodeIds : Step(addDependency(Used(Cur), p, c))

EditRemove ==
  /\ stack = <<>> /\ ops < MaxEditOps
  /\ \E p \in NodeIds, c \in NodeIds : Step(removeDependency(Used(Cur), p, c))

EditRun == stack = <<>> /\ ops < MaxEditOps /\ Step(manualRun(Cur))

NextEdit ==
  \/ EditDirty
  \/ EditAdd
  \/ EditRemove
  \/ EditRun
  \/ ExecReturn

SpecEdit == InitEdit /\ [][NextEdit]_vars

\* ------------------------------------------------------------------------
\* C34
\* ------------------------------------------------------------------------
\* d can be reached from a along child edges of g
Below(g, a, d) ==
  a # d /\ SeqHas(expandByTraversal(g, <<a>>, "dirty-and-down"), d)

\* C34: when a run() hands a node to the executor of a phase, the node is not
\* an ancestor, in the graph of that moment, of a node the same run() already
\* handed to the executor of that phase.
C34_AncestorsFirst ==
  [][ \A m \in (Len(execLog) + 1)..Len(execLog') :
        \A k \in 1..(m - 1) :
           (/\ execLog'[k].run = execLog'[m].run
            /\ execLog'[k].phase = execLog'[m].phase)
           => ~Below(graph', execLog'[m].node, execLog'[k].node) ]_vars

\* ------------------------------------------------------------------------
\* startLoop() and stopLoop().  The loop callback is a "loop" entry of
\* `tasks`; the timers of the ups/eps/nps counters are outside the model.
\* The scheduler is asynchronous here, so invalidate() returns before any
\* run() begins.
\* ------------------------------------------------------------------------
\* const loop = (time) => { ... }
loopCallback(S, zero) ==
  IF ~S.loop.active THEN S
  ELSE LET S1 == invalidate(S, zero)
       IN [S1 EXCEPT !.tasks = Append(@, "loop"),
                     !.loop.frame = IF S.schedulerType = "animationFrame"
                                    THEN TRUE ELSE @]

startLoop(S, zero) ==
  IF S.loop.active THEN S
  ELSE loopCallback([S EXCEPT !.loop.active = TRUE], zero)

\* a stopLoop() that leaves the throttle timer armed
stopLoop_KeepsTimer(S) ==
  [S EXCEPT !.loop = [active |-> FALSE, frame |-> FALSE],
            !.tasks = IF S.loop.frame THEN SeqDel(@, "loop") ELSE @]

stopLoop(S) ==
  [S EXCEPT !.loop = [active |-> FALSE, frame |-> FALSE],
            !.tasks = IF S.loop.frame THEN SeqDel(@, "loop") ELSE @,
            !.throttleTimer = FALSE]

\* ------------------------------------------------------------------------
\* A specification of the loop: top-level code calls dirty() with
\* invalidate = true, startLoop() and stopLoop(); the event loop runs the
\* scheduler callbacks, the loop callbacks and the throttle timer.  obs.n
\* counts the loop callbacks.
\* ------------------------------------------------------------------------
MaxLoopOps == 3

MaxLoopTurns == 2

InitLoop ==
  InitIn({[g |-> FlatGraph, w |-> [n \in NodeIds |-> 0]]},
         {"microtask", "animationFrame"}, {EachTable})

LoopDirty ==
  /\ stack = <<>> /\ ops < MaxLoopOps
  /\ \E n \in {"A", "B"}, zero \in BOOLEAN :
       Step(dirtyCall(Used(Cur), "P1", n, TRUE, 0, zero))

LoopStart ==
  /\ stack = <<>> /\ ops < MaxLoopOps
  /\ \E zero \in BOOLEAN : Step(startLoop(Used(Cur), zero))

LoopStop == stack = <<>> /\ ops < MaxLoopOps /\ Step(stopLoop(Used(Cur)))

LoopFire ==
  /\ stack = <<>> /\ tasks # <<>> /\ Head(tasks) = "loop"
  /\ obs.n < MaxLoopTurns
  /\ \E zero \in BOOLEAN :
       Step(loopCallback([NewStack(Cur) EXCEPT !.tasks = Tail(@),
                                               !.obs.n = @ + 1], zero))

LoopTask == tasks # <<>> /\ Head(tasks) # "loop" /\ TaskFire

NextLoop ==
  \/ LoopDirty
  \/ LoopStart
  \/ LoopStop
  \/ LoopFire
  \/ LoopTask
  \/ TimerFire
  \/ ExecReturn

SpecLoop == InitLoop /\ [][NextLoop]_vars

\* ------------------------------------------------------------------------
\* C35
\* ------------------------------------------------------------------------
\* something is pending that leads to a run(): a scheduler callback, the
\* throttle timer, or the callback of the running loop
DrainPending ==
  \/ SeqHas(tasks, "inv") \/ SeqHas(tasks, "run")
  \/ throttleTimer
  \/ loop.active /\ SeqHas(tasks, "loop")

\* C35: a node queued by dirty() with invalidate = true is executed in the
\* end, whatever startLoop() and stopLoop() calls come in between: between
\* calls, while the node waits, a scheduler callback, the throttle timer or
\* the loop is pending.  (Where none is, nothing is left to fire and the node
\* waits for ever.)
C35_DrainNotLost ==
  \A key \in Keys : (stack = <<>> /\ ghost[key].owed) => DrainPending

====
